---------------------------- MODULE Spec2Model ----------------------------
(***************************************************************************)
(* LeetAI: the event store, the binary song codec, the packet protocol and *)
(* the playback scheduler of the conductor (boss) and its satellites       *)
(* (pattern, pitch).                                                       *)
(*                                                                         *)
(* An event is the Python list [tick, channel, note, intensity], here the  *)
(* tuple <<tick, channel, note, intensity>>; Python's index k is index k+1 *)
(* here.  A byte string is a sequence of numbers in 0..255.                *)
(***************************************************************************)
EXTENDS Integers, Sequences, FiniteSets, TLC

VARIABLES
    \* ---- the event store driven directly (add_event_last) ----
    array,        \* the list handed to add_event_last
    inserted,     \* the packets that were stored, in the order of their insertion
    prevArray,    \* the list as it was before the last call
    lastPacket    \* the packet of the last call, <<>> before the first call

storeVars == <<array, inserted, prevArray, lastPacket>>

VARIABLES
    \* ---- the song file and the conductor's Song (midi2bin.py, song.py, boss.py) ----
    origin,       \* "midi2bin": the file is written by create_byte_song; "raw": any bytes
    source,       \* the header fields and note records the file is made from
    file,         \* the bytes of the .bin file
    bossPc,       \* "tool", "toolFailed", "boot", "loop" (main loop runs), "stopped",
                  \* "away" (the conductor runs out of sight)
    songEvents,   \* Song.events
    songMeta,     \* Song.metadata
    loadError     \* the exception Song.load raised, "none" otherwise

codecVars == <<origin, source, file, bossPc, songEvents, songMeta, loadError>>

VARIABLES
    \* ---- the radio, the conductor's main loop and one satellite ----
    now,          \* time.monotonic(), counted in units of 1/3840 s
    sat,          \* the satellite: its LocalSong, its playback state, its loop position
    inbox,        \* packets the satellite's radio holds, esp.read() takes the first
    bossInbox,    \* packets the conductor's radio holds
    bossPhase,    \* the call of the conductor's main loop that runs next
    player,       \* SongPlayer: playback_state, song_index, start_time
    sendPos,      \* 0: no send_song runs; k: send_song sends its k-th packet next
    sendId,       \* the id argument of the running or last send_song
    sendResult,   \* "none", "running", "done", "error" (SongSendError)
    sent,         \* the packets the running or last send_song has sent
    pairs,        \* pair requests sent so far
    aired         \* the packets the player sent in the last call of the main loop

netVars == <<now, sat, inbox, bossInbox, bossPhase, player, sendPos, sendId,
             sendResult, sent, pairs, aired>>

VARIABLES
    \* ---- handle_packet called on one message ----
    pktMsg,       \* packet.msg
    pktOut        \* what the call did: the value returned, or that it raised

pktVars == <<pktMsg, pktOut>>

VARIABLES
    \* ---- one call of send_verified_packet ----
    verPc,        \* "idle", "send" (esp.send is next), "listen" (in the while loop),
                  \* "returned"
    verRetries,   \* retries of the for loop: the windows that have ended
    verSends,     \* calls of esp.send that returned
    verReads,     \* calls of esp.read in the running window
    verLast,      \* what the last esp.read gave: "nothing" before the first
    verOut        \* "none", "True", "False", "PacketSendError"

verVars == <<verPc, verRetries, verSends, verReads, verLast, verOut>>

VARIABLES
    \* ---- what the surroundings of a device have done to it ----
    faults,       \* the calls that raised so far, in their order: the collaborator
                  \* ("audio", "midi", "display") and the part of the loop it was called from
    handed        \* the event packets the radio has handed to the satellite so far

envVars == <<faults, handed>>

vars == <<storeVars, codecVars, netVars, pktVars, verVars, envVars>>

-----------------------------------------------------------------------------
(* Bounds of the model *)

MaxLen == 3          \* longest list built by direct add_event_last calls
MaxTick == 2         \* ticks of the directly inserted packets are 0..MaxTick

Ticks == 0..MaxTick
\* (channel, note, intensity) of the directly inserted packets
Tails == {<<0, 60, 100>>, <<0, 60, 0>>, <<1, 60, 100>>}
Packets == {<<t>> \o tl : t \in Ticks, tl \in Tails}

-----------------------------------------------------------------------------
(* Helpers on sequences *)

Range(s) == {s[i] : i \in 1..Len(s)}

\* list.insert(n, x): x ends up with n elements before it
InsertAt(s, n, x) == SubSeq(s, 1, n) \o <<x>> \o SubSeq(s, n + 1, Len(s))

\* the position of x in s (0 when absent)
IndexOf(s, x) == IF x \in Range(s) THEN CHOOSE i \in 1..Len(s) : s[i] = x ELSE 0

SortedByTick(s) == \A i \in 1..Len(s) : \A j \in 1..Len(s) : i < j => s[i][1] <= s[j][1]

NoDuplicates(s) == \A i \in 1..Len(s) : \A j \in 1..Len(s) : i /= j => s[i] /= s[j]

-----------------------------------------------------------------------------
(* add_event_last, song.py 422-446 *)

\* "while p >= 0 and packet[0] < array[p][0]: p -= 1"
RECURSIVE ScanLaterTicks(_, _, _)
ScanLaterTicks(arr, packet, p) ==
    IF p >= 1 /\ packet[1] < arr[p][1]
    THEN ScanLaterTicks(arr, packet, p - 1)
    ELSE p

\* a variant that compares only the nearest event of the same tick
ScanSameTickNearestOnly(arr, packet, p) ==
    IF p >= 1 /\ packet[1] = arr[p][1]
    THEN IF Tail(packet) = Tail(arr[p])
         THEN [redundant |-> TRUE, p |-> p]
         ELSE [redundant |-> FALSE,
               p |-> CHOOSE q \in 0..p :
                        /\ \A k \in (q + 1)..p : arr[k][1] = packet[1]
                        /\ (q >= 1 => arr[q][1] /= packet[1])]
    ELSE [redundant |-> FALSE, p |-> p]

\* "while p >= 0 and packet[0] == array[p][0]:
\*      if packet[1:] == array[p][1:]: return
\*      p -= 1"
RECURSIVE ScanSameTick(_, _, _)
ScanSameTick(arr, packet, p) ==
    IF p >= 1 /\ packet[1] = arr[p][1]
    THEN IF Tail(packet) = Tail(arr[p])
         THEN [redundant |-> TRUE, p |-> p]
         ELSE ScanSameTick(arr, packet, p - 1)
    ELSE [redundant |-> FALSE, p |-> p]

\* a variant whose insertion index is one too low
AddEventLastOffByOne(arr, packet) ==
    IF arr = <<>> THEN <<packet>>
    ELSE IF packet[1] > arr[Len(arr)][1] THEN Append(arr, packet)
    ELSE LET p == ScanLaterTicks(arr, packet, Len(arr))
             r == ScanSameTick(arr, packet, p)
         IN  IF r.redundant THEN arr
             ELSE InsertAt(arr, IF r.p >= 1 THEN r.p - 1 ELSE 0, packet)

\* a variant without the test for an event that is already stored
AddEventLastKeepsDuplicates(arr, packet) ==
    IF arr = <<>> THEN <<packet>>
    ELSE IF packet[1] > arr[Len(arr)][1] THEN Append(arr, packet)
    ELSE LET p == ScanLaterTicks(arr, packet, Len(arr))
             r == ScanSameTick(arr, packet, p)
         IN  InsertAt(arr, IF r.redundant THEN p ELSE r.p, packet)

AddEventLast(arr, packet) ==
    IF arr = <<>> THEN <<packet>>
    ELSE IF packet[1] > arr[Len(arr)][1] THEN Append(arr, packet)
    ELSE LET p == ScanLaterTicks(arr, packet, Len(arr))
             r == ScanSameTick(arr, packet, p)
         IN  IF r.redundant THEN arr ELSE InsertAt(arr, r.p, packet)

\* the directly driven store before any call
StoreIdle ==
    /\ array = <<>>
    /\ inserted = <<>>
    /\ prevArray = <<>>
    /\ lastPacket = <<>>

\* no radio, no player, no satellite
NetIdle ==
    /\ now = 0
    /\ sat = [kind |-> "none", phase |-> "off"]
    /\ inbox = <<>>
    /\ bossInbox = <<>>
    /\ bossPhase = "playback"
    /\ player = [state |-> "paused"]
    /\ sendPos = 0
    /\ sendId = 0
    /\ sendResult = "none"
    /\ sent = <<>>
    /\ pairs = 0
    /\ aired = <<>>

\* no message under decoding
PktIdle ==
    /\ pktMsg = <<>>
    /\ pktOut = [raised |-> FALSE, result |-> <<"idle">>]

\* no call has raised, the radio has handed over nothing
EnvIdle ==
    /\ faults = <<>>
    /\ handed = <<>>

\* send_verified_packet is not called
VerIdle ==
    /\ verPc = "idle"
    /\ verRetries = 0
    /\ verSends = 0
    /\ verReads = 0
    /\ verLast = "nothing"
    /\ verOut = "none"

-----------------------------------------------------------------------------
(* Bytes: int.from_bytes(.., "big"), int.to_bytes(.., byteorder='big'), slices *)

HeaderLen == 11      \* bytes of the header
RecordLen == 7       \* bytes of one record

\* data[a:b] (a slice never raises, it is cut at the end of the data)
Slice(data, a, b) == SubSeq(data, a + 1, IF b < Len(data) THEN b ELSE Len(data))

\* int.from_bytes(bs, "big")
RECURSIVE FromBytes(_)
FromBytes(bs) ==
    IF bs = <<>> THEN 0
    ELSE 256 * FromBytes(SubSeq(bs, 1, Len(bs) - 1)) + bs[Len(bs)]

\* n.to_bytes(w, byteorder='big') raises OverflowError unless this holds
\* (n < 256 ^ w, written without the power 256 ^ 4)
Fits(n, w) == n >= 0 /\ n \div (256 ^ (w - 1)) < 256

\* n.to_bytes(w, byteorder='big')
ToBytes(n, w) == [i \in 1..w |-> (n \div (256 ^ (w - i))) % 256]

\* round(x) of Python 3 for x = x2 / 2: halves go to the even neighbour
Round(x2) ==
    LET q == x2 \div 2
    IN  IF x2 % 2 = 0 THEN q ELSE IF q % 2 = 0 THEN q ELSE q + 1

-----------------------------------------------------------------------------
(* midi2bin.py: create_byte_song, 78-91 *)

\* the header and the records of a song as create_byte_song receives them:
\* h.tempo2 is twice the tempo in BPM (tempo_changes[0].tempo is a float),
\* notes are [start, end, instrument, pitch, velocity]
EncodeFits(src) ==
    /\ Fits(src.h.ticks_per_beat, 2)
    /\ Fits(src.h.max_ticks, 4)
    /\ Fits(Round(src.h.tempo2), 2)
    /\ Fits(src.h.numerator, 1)
    /\ Fits(src.h.denominator, 1)
    /\ Fits(src.h.nr_instruments, 1)
    /\ \A k \in 1..Len(src.notes) :
          /\ Fits(src.notes[k][1], 2)
          /\ Fits(src.notes[k][2], 2)
          /\ \A f \in 3..5 : Fits(src.notes[k][f], 1)

RECURSIVE EncodeNotes(_)
EncodeNotes(notes) ==
    IF notes = <<>> THEN <<>>
    ELSE ToBytes(notes[1][1], 2) \o ToBytes(notes[1][2], 2)
            \o SubSeq(notes[1], 3, 5) \o EncodeNotes(Tail(notes))

CreateByteSong(src) ==
    ToBytes(src.h.ticks_per_beat, 2) \o ToBytes(src.h.max_ticks, 4)
        \o ToBytes(Round(src.h.tempo2), 2) \o ToBytes(src.h.numerator, 1)
        \o ToBytes(src.h.denominator, 1) \o ToBytes(src.h.nr_instruments, 1)
        \o EncodeNotes(src.notes)

-----------------------------------------------------------------------------
(* song.py: Song.__init__, load, _parse_header, _update_metadata, _parse_events *)

\* config.DEFAULT_SONG_METADATA and the tick_to_time Song.__init__ derives from
\* it; tick_to_time = 60 * 4 / (tempo * ticks_per_beat * denominator) is kept
\* as the fraction <<numerator, denominator>>
DefaultMeta ==
    [ticks_per_beat |-> 480, max_ticks |-> 0, tempo |-> 160, numerator |-> 4,
     denominator |-> 4, nr_instruments |-> 1, tick_to_time |-> <<240, 160 * 480 * 4>>]

\* a variant that reads the tick count from 2 bytes only
ParseHeaderShortTicks(data) ==
    IF Len(data) < HeaderLen
    THEN [err |-> "IndexError", meta |-> DefaultMeta]
    ELSE [err |-> "none",
          meta |-> [ticks_per_beat |-> FromBytes(Slice(data, 0, 2)),
                    max_ticks |-> FromBytes(Slice(data, 2, 4)),
                    tempo |-> FromBytes(Slice(data, 6, 8)),
                    numerator |-> data[9],
                    denominator |-> data[10],
                    nr_instruments |-> data[11],
                    tick_to_time |-> <<>>]]

\* Song._parse_header up to the assignment of self.metadata: data[8], data[9]
\* and data[10] raise IndexError on a short header
ParseHeader(data) ==
    IF Len(data) < HeaderLen
    THEN [err |-> "IndexError", meta |-> DefaultMeta]
    ELSE [err |-> "none",
          meta |-> [ticks_per_beat |-> FromBytes(Slice(data, 0, 2)),
                    max_ticks |-> FromBytes(Slice(data, 2, 6)),
                    tempo |-> FromBytes(Slice(data, 6, 8)),
                    numerator |-> data[9],
                    denominator |-> data[10],
                    nr_instruments |-> data[11],
                    tick_to_time |-> <<>>]]

\* Song._update_metadata: the division raises ZeroDivisionError
UpdateMetadata(meta) ==
    LET d == meta.tempo * meta.ticks_per_beat * meta.denominator
    IN  IF d = 0 THEN [err |-> "ZeroDivisionError", meta |-> meta]
        ELSE [err |-> "none", meta |-> [meta EXCEPT !.tick_to_time = <<240, d>>]]

\* the two events of the record at offset i of the data
OnEvent(data, i) ==
    <<FromBytes(Slice(data, i, i + 2)), data[i + 5], data[i + 6], data[i + 7]>>

\* a variant that gives the note-off the record's intensity
OffEventKeepsIntensity(data, i) ==
    <<FromBytes(Slice(data, i + 2, i + 4)), data[i + 5], data[i + 6], data[i + 7]>>

OffEvent(data, i) ==
    <<FromBytes(Slice(data, i + 2, i + 4)), data[i + 5], data[i + 6], 0>>

\* Song._parse_events: "for i in range(11, len(data), 7)"; data[i + 4],
\* data[i + 5], data[i + 6] raise IndexError in a cut record, before anything
\* of that record is added
RECURSIVE ParseEventsFrom(_, _, _)
ParseEventsFrom(data, i, events) ==
    IF i >= Len(data) THEN [err |-> "none", events |-> events]
    ELSE IF i + RecordLen > Len(data) THEN [err |-> "IndexError", events |-> events]
    ELSE ParseEventsFrom(data, i + RecordLen,
            AddEventLast(AddEventLast(events, OnEvent(data, i)), OffEvent(data, i)))

\* Song(file_path, file_name): __init__ and load; what the object holds when
\* the constructor returns or raises
SongLoad(data) ==
    LET h == ParseHeader(data)
        u == UpdateMetadata(h.meta)
        p == ParseEventsFrom(data, HeaderLen, <<>>)
    IN  IF h.err /= "none" THEN [err |-> h.err, meta |-> DefaultMeta, events |-> <<>>]
        ELSE IF u.err /= "none" THEN [err |-> u.err, meta |-> u.meta, events |-> <<>>]
        ELSE [err |-> p.err, meta |-> u.meta, events |-> p.events]

-----------------------------------------------------------------------------
(* The song file, from the converter or as raw bytes, and the boss's start *)

MaxNotes == 2        \* most records of a song file

\* records of the songs: ticks that need one and two bytes, two channels
NoteRecords ==
    {<<s, e, c, 60, 100>> : s \in {0, 480}, e \in {0, 480}, c \in {0, 1}}

\* a record whose end tick does not fit 2 bytes
LongNote == <<0, 65536, 0, 60, 100>>

NoteLists == UNION {[1..n -> NoteRecords \cup {LongNote}] : n \in 0..MaxNotes}

\* main() of midi2bin.py sorts the notes by start tick; the header of a MIDI
\* file has a positive resolution, tempo and denominator
MidiSongs ==
    {[h |-> [ticks_per_beat |-> 480, max_ticks |-> m, tempo2 |-> t2,
             numerator |-> 4, denominator |-> 4, nr_instruments |-> 2],
      notes |-> ns] :
        m \in {960, 65536 + 960}, t2 \in {240, 241},
        ns \in {l \in NoteLists : \A k \in 1..(Len(l) - 1) : l[k][1] <= l[k + 1][1]}}

\* the fields of raw files: any record order, a tempo that may be 0
RawSongs ==
    {[h |-> [ticks_per_beat |-> 480, max_ticks |-> 960, tempo2 |-> t2,
             numerator |-> 4, denominator |-> 4, nr_instruments |-> 1],
      notes |-> ns] :
        t2 \in {0, 240}, ns \in {l \in NoteLists : LongNote \notin Range(l)}}

CodecIdle ==
    /\ origin = "none"
    /\ source = <<>>
    /\ file = <<>>
    /\ bossPc = "off"
    /\ songEvents = <<>>
    /\ songMeta = DefaultMeta
    /\ loadError = "none"

CodecInit ==
    /\ StoreIdle
    /\ NetIdle
    /\ PktIdle
    /\ VerIdle
    /\ EnvIdle
    /\ songEvents = <<>>
    /\ songMeta = DefaultMeta
    /\ loadError = "none"
    /\ \/ /\ origin = "midi2bin"
          /\ source \in MidiSongs
          /\ file = <<>>
          /\ bossPc = "tool"
       \/ /\ origin = "raw"
          /\ source \in RawSongs
          /\ \E n \in 0..(HeaderLen + RecordLen * Len(source.notes)) :
                file = SubSeq(CreateByteSong(source), 1, n)
          /\ bossPc = "boot"

\* midi2bin.py main(): create_byte_song and the write of the .bin file; an
\* OverflowError is logged and no file is written
Midi2Bin ==
    /\ bossPc = "tool"
    /\ IF EncodeFits(source)
       THEN /\ file' = CreateByteSong(source)
            /\ bossPc' = "boot"
       ELSE /\ file' = file
            /\ bossPc' = "toolFailed"
    /\ UNCHANGED <<origin, source, songEvents, songMeta, loadError, storeVars,
                   netVars, pktVars, verVars, envVars>>

\* boss.py main() 296-302 and 321-324: Song(...) raises -> "Song init error" is
\* reported, the exception is raised again, main reports "Fatal error", runs
\* cleanup and returns; otherwise the main loop is entered
BossStart ==
    /\ bossPc = "boot"
    /\ LET r == SongLoad(file)
       IN  /\ songEvents' = r.events
           /\ songMeta' = r.meta
           /\ loadError' = r.err
           /\ bossPc' = IF r.err = "none" THEN "loop" ELSE "stopped"
    /\ UNCHANGED <<origin, source, file, storeVars, netVars, pktVars, verVars, envVars>>

CodecNext == Midi2Bin \/ BossStart

SpecCodec == CodecInit /\ [][CodecNext]_vars

-----------------------------------------------------------------------------
(* Claims about the song codec *)

\* the boss has tried to load the file
Booted == bossPc \in {"loop", "stopped"}

\* an 11-byte header followed by whole 7-byte records
WellFormedLength(data) ==
    Len(data) >= HeaderLen /\ (Len(data) - HeaderLen) % RecordLen = 0

\* the records that are in the file, as they were written into it
FileNotes == SubSeq(source.notes, 1, (Len(file) - HeaderLen) \div RecordLen)

NoteOnOf(r) == <<r[1], r[3], r[4], r[5]>>
NoteOffOf(r) == <<r[2], r[3], r[4], 0>>

\* the file of the scenario: header {480, 960, 120, 4, 4, 1} and the record
\* (0, 480, 0, 60, 100)
ScenarioFile ==
    <<1, 224, 0, 0, 3, 192, 0, 120, 4, 4, 1>> \o <<0, 0, 1, 224, 0, 60, 100>>

EachRecordGivesOnAndOff ==
    /\ \A k \in 1..Len(FileNotes) :
          /\ NoteOnOf(FileNotes[k]) \in Range(songEvents)
          /\ NoteOffOf(FileNotes[k]) \in Range(songEvents)
    /\ file = ScenarioFile => songEvents = <<<<0, 0, 60, 100>>, <<480, 0, 60, 0>>>>

\* C6 as stated: decoding an 11-byte header followed by n 7-byte records puts
\* into the Song's store, for each record (start, end, channel, note,
\* velocity), the events (start, channel, note, velocity) and (end, channel,
\* note, 0); the scenario file gives exactly [(0,0,60,100), (480,0,60,0)].
C6_DecodeStoresOnAndOff ==
    (Booted /\ WellFormedLength(file)) => EachRecordGivesOnAndOff

\* C6 amended: the same for a header whose tempo, ticks_per_beat and
\* denominator are all non-zero (with a zero among them _update_metadata
\* raises ZeroDivisionError before any record is read); such a load succeeds.
C6_DecodeStoresOnAndOffNonZeroHeader ==
    (/\ Booted
     /\ WellFormedLength(file)
     /\ FromBytes(Slice(file, 0, 2)) * FromBytes(Slice(file, 6, 8)) * file[10] /= 0)
        => (bossPc = "loop" /\ EachRecordGivesOnAndOff)

\* the scenario file has been decoded
C6_Witness ==
    /\ bossPc = "loop"
    /\ file = ScenarioFile
    /\ songEvents = <<<<0, 0, 60, 100>>, <<480, 0, 60, 0>>>>

\* C7: decoding bytes shorter than 11, or with a body that is no multiple of
\* 7, fails with the MalformedSong condition, and the failure does not stop
\* the device's main program.
C7_MalformedSongRejected ==
    (Booted /\ ~WellFormedLength(file))
        => (loadError = "MalformedSong" /\ bossPc = "loop")

-----------------------------------------------------------------------------
(* network.py: the packets, send_packet, send_song, handle_packet *)

\* config.NETWORK_PACKET_TYPES: ord('e'), ord('l'), ...
PacketTypes ==
    [event |-> 101, live |-> 108, pair |-> 112, tick |-> 116, begin |-> 98,
     stop |-> 115, header |-> 104, mute |-> 109, update |-> 117, reset |-> 114,
     clear |-> 99, scale |-> 110]

KnownTypes == {PacketTypes[k] : k \in DOMAIN PacketTypes}

\* config.EXTRA_PAYLOAD, the bytes of "PAYLOAD TO MAKE A PACKET MORE ROBUST..."
ExtraPayload ==
    <<80, 65, 89, 76, 79, 65, 68, 32, 84, 79, 32, 77, 65, 75, 69, 32, 65, 32, 80,
      65, 67, 75, 69, 84, 32, 77, 79, 82, 69, 32, 82, 79, 66, 85, 83, 84, 46, 46,
      46>>

\* config.NETWORK_PACKET_RETRANSMISSION
DefaultRetransmission == 1

\* send_packet(id, payload, retransmission=n): the packets handed to esp.send,
\* one after the other; n = 0 stands for None ("retransmission or config...")
SendPacket(id, payload, retransmission) ==
    LET n == IF retransmission = 0 THEN DefaultRetransmission ELSE retransmission
    IN  [k \in 1..n |-> <<id>> \o payload]

\* a variant that sends the records of channel id only, also for id 255
RECURSIVE EventPacketsOwnOnly(_, _, _, _)
EventPacketsOwnOnly(id, byte_song, i, acc) ==
    IF i >= Len(byte_song) THEN [err |-> "none", packets |-> acc]
    ELSE IF i + 4 >= Len(byte_song) THEN [err |-> "IndexError", packets |-> acc]
    ELSE IF byte_song[i + 5] = id
    THEN EventPacketsOwnOnly(id, byte_song, i + RecordLen,
            Append(acc, <<PacketTypes.event>> \o Slice(byte_song, i, i + RecordLen)))
    ELSE EventPacketsOwnOnly(id, byte_song, i + RecordLen, acc)

\* the loop of send_song over the body: byte_song[i + 4] raises IndexError in
\* a record cut before its channel byte
RECURSIVE EventPackets(_, _, _, _)
EventPackets(id, byte_song, i, acc) ==
    IF i >= Len(byte_song) THEN [err |-> "none", packets |-> acc]
    ELSE IF i + 4 >= Len(byte_song) THEN [err |-> "IndexError", packets |-> acc]
    ELSE IF byte_song[i + 5] = id \/ id = 255
    THEN EventPackets(id, byte_song, i + RecordLen,
            Append(acc, <<PacketTypes.event>> \o Slice(byte_song, i, i + RecordLen)))
    ELSE EventPackets(id, byte_song, i + RecordLen, acc)

\* a variant that sends the header after the event packets
SendSongHeaderLate(id, byte_song) ==
    LET ev == EventPackets(id, byte_song, HeaderLen, <<>>)
    IN  [err |-> ev.err,
         packets |-> SendPacket(PacketTypes.clear, <<id>>, 2)
                     \o ev.packets
                     \o << <<PacketTypes.header>> \o Slice(byte_song, 0, HeaderLen) >>
                     \o SendPacket(PacketTypes.update, ExtraPayload, 2)
                     \o SendPacket(PacketTypes.reset, ExtraPayload, 2)]

\* send_song(id, byte_song, ..): every packet it hands to esp.send, in the
\* order of the calls, and the exception that ends it early
SendSong(id, byte_song) ==
    LET ev == EventPackets(id, byte_song, HeaderLen, <<>>)
        first == SendPacket(PacketTypes.clear, <<id>>, 2)
                 \o << <<PacketTypes.header>> \o Slice(byte_song, 0, HeaderLen) >>
                 \o ev.packets
    IN  IF ev.err /= "none" THEN [err |-> ev.err, packets |-> first]
        ELSE [err |-> "none",
              packets |-> first \o SendPacket(PacketTypes.update, ExtraPayload, 2)
                                \o SendPacket(PacketTypes.reset, ExtraPayload, 2)]

\* Python's None
None == <<>>

Returns(v) == [raised |-> FALSE, result |-> v]
Raises == [raised |-> TRUE, result |-> None]

\* a variant that looks the type byte up and raises for a byte it does not know
HandlePacketStrict(msg) ==
    IF Len(msg) = 0 \/ msg[1] \notin KnownTypes THEN Raises
    ELSE Returns(<<"known">>)

\* handle_packet(packet) for a packet with packet.msg = msg: msg[k] raises
\* IndexError beyond the end of msg, a slice does not
HandlePacket(msg) ==
    IF Len(msg) = 0 THEN Raises
    ELSE CASE msg[1] = PacketTypes.event ->
                IF Len(msg) < 8 THEN Raises
                ELSE Returns(<<"event", msg[6], FromBytes(Slice(msg, 1, 3)),
                               FromBytes(Slice(msg, 3, 5)), msg[7], msg[8]>>)
           [] msg[1] = PacketTypes.live ->
                IF Len(msg) < 4 THEN Raises
                ELSE Returns(<<"live", msg[2], msg[3], msg[4]>>)
           [] msg[1] = PacketTypes.pair ->
                IF Len(msg) < 2 THEN Raises ELSE Returns(<<"pair", msg[2]>>)
           [] msg[1] = PacketTypes.tick ->
                Returns(<<"tick", FromBytes(Slice(msg, 1, 3))>>)
           [] msg[1] = PacketTypes.begin -> Returns(<<"begin">>)
           [] msg[1] = PacketTypes.stop -> Returns(<<"stop">>)
           [] msg[1] = PacketTypes.header ->
                IF Len(msg) < 12 THEN Raises
                ELSE Returns(<<"header", FromBytes(Slice(msg, 1, 3)),
                               FromBytes(Slice(msg, 3, 7)), FromBytes(Slice(msg, 7, 9)),
                               msg[10], msg[11], msg[12]>>)
           [] msg[1] = PacketTypes.mute ->
                IF Len(msg) < 3 THEN Raises ELSE Returns(<<"mute", msg[2], msg[3]>>)
           [] msg[1] = PacketTypes.update -> Returns(<<"update">>)
           [] msg[1] = PacketTypes.reset -> Returns(<<"reset">>)
           [] msg[1] = PacketTypes.clear ->
                IF Len(msg) < 2 THEN Raises ELSE Returns(<<"clear", msg[2]>>)
           [] msg[1] = PacketTypes.scale ->
                IF Len(msg) >= 10 THEN Returns(<<"scale", msg[3], Slice(msg, 3, 10)>>)
                ELSE Returns(None)
           [] OTHER -> Returns(None)

-----------------------------------------------------------------------------
(* Time: tick_to_time is the fraction <<p, q>> of a second, the clock counts *)
(* units of 1/3840 s, so that a tick of the default metadata lasts 3 units  *)
(* and a tick at tempo 120 and 480 ticks per beat lasts 4 units; the float  *)
(* products of the code are taken as exact                                  *)

\* ticks * tick_to_time
TicksToTime(ticks, ttt) == (ticks * ttt[1] * 3840) \div ttt[2]

\* int(x) for x = n / d with d > 0: cut towards 0
Trunc(n, d) == IF n >= 0 THEN n \div d ELSE 0 - ((0 - n) \div d)

\* int(time_to_tick * dt), time_to_tick being q / p
TimeToTicks(dt, ttt) == Trunc(dt * ttt[2], ttt[1] * 3840)

-----------------------------------------------------------------------------
(* The satellites: pattern.py (PatternState, PatternPacketHandler,          *)
(* PatternPlayback) and pitch.py (PitchSynth), both on a LocalSong          *)

\* no event twice in the log, ticks in non-decreasing order
DispatchedOnceInOrder(log) ==
    \A i \in 1..Len(log) : \A j \in 1..Len(log) :
        i < j => log[i] /= log[j] /\ log[i][1] <= log[j][1]

\* the log of the dispatched events with e added; the log ends with the first
\* dispatch that repeats an event or steps back in ticks
Logged(log, e) == IF DispatchedOnceInOrder(log) THEN Append(log, e) ELSE log

\* the satellite as constructed at time t: LocalSong(INSTRUMENT_ID) and
\* PatternState(INSTRUMENT_ID) or the fields of PitchSynth.  timing is the
\* module global tick_to_time of pattern.py, which no statement binds before
\* the first header packet (<<>>: not bound); phase is the call of the main
\* loop that runs next; fired and sounding are not fields of the program: the
\* events the scheduler dispatched since playback was last entered or reset,
\* and the notes for which the MIDI output got a NoteOn and no NoteOff since
SatNew(kind, id, t) ==
    [kind |-> kind, id |-> id, events |-> <<>>, meta |-> DefaultMeta,
     timing |-> <<>>, mode |-> "clear", index |-> 0, start |-> t, delta |-> 0,
     muted |-> 0, phase |-> "playback", fired |-> <<>>, sounding |-> {}]

\* the tick_to_time the packet handlers use: the module global in pattern.py,
\* song.get_metadata('tick_to_time') in pitch.py
SatTiming(st) == IF st.kind = "pattern" THEN st.timing ELSE st.meta.tick_to_time

\* a variant that appends the two events at the end of the list
LocalAddEventAppends(st, tick_start, tick_end, note, intensity) ==
    [st EXCEPT !.events = @ \o << <<tick_start, st.id, note, intensity>>,
                                  <<tick_end, st.id, note, 0>> >>]

\* LocalSong.add_event
LocalAddEvent(st, tick_start, tick_end, note, intensity) ==
    LET ev == AddEventLast(AddEventLast(st.events,
                                        <<tick_start, st.id, note, intensity>>),
                           <<tick_end, st.id, note, 0>>)
        grown == tick_end > st.meta.max_ticks
        m == IF grown THEN [st.meta EXCEPT !.max_ticks = tick_end] ELSE st.meta
        u == UpdateMetadata(m)
    IN  [st EXCEPT !.events = ev, !.meta = IF grown THEN u.meta ELSE m]

\* _handle_tick_packet: NameError while the global is not bound
HandleTick(st, tick, t) ==
    IF SatTiming(st) = <<>> THEN st
    ELSE [st EXCEPT !.delta = tick - TimeToTicks(t - st.start, SatTiming(st))]

\* _handle_begin_packet: pitch.py asks for a non-empty song first;
\* get_event(song_index) is None at the end of the song and None[0] raises
\* TypeError, the global that is not bound raises NameError, both before
\* anything is assigned
HandleBegin(st, t) ==
    IF st.kind = "pitch" /\ Len(st.events) = 0 THEN st
    ELSE IF st.index >= Len(st.events) \/ SatTiming(st) = <<>> THEN st
    ELSE [st EXCEPT !.start = t - TicksToTime(st.events[st.index + 1][1], SatTiming(st)),
                    !.mode = "playing",
                    !.fired = IF st.mode = "playing" THEN @ ELSE <<>>]

\* _handle_stop_packet
HandleStop(st) == [st EXCEPT !.mode = "paused"]

\* a variant that stores the metadata and leaves the mode as it is
HandleHeaderKeepsMode(st, r) ==
    LET m == [st.meta EXCEPT !.ticks_per_beat = r[2], !.max_ticks = r[3],
                             !.tempo = r[4], !.numerator = r[5],
                             !.denominator = r[6], !.nr_instruments = r[7]]
        u == UpdateMetadata(m)
    IN  IF u.err /= "none" THEN [st EXCEPT !.meta = m]
        ELSE [st EXCEPT !.meta = u.meta,
                        !.timing = IF st.kind = "pattern" THEN u.meta.tick_to_time ELSE @]

\* _handle_header_packet with LocalSong.update_header: the metadata is
\* updated before _update_metadata divides
HandleHeader(st, r) ==
    LET m == [st.meta EXCEPT !.ticks_per_beat = r[2], !.max_ticks = r[3],
                             !.tempo = r[4], !.numerator = r[5],
                             !.denominator = r[6], !.nr_instruments = r[7]]
        u == UpdateMetadata(m)
    IN  IF u.err /= "none" THEN [st EXCEPT !.meta = m]
        ELSE [st EXCEPT !.meta = u.meta,
                        !.timing = IF st.kind = "pattern" THEN u.meta.tick_to_time ELSE @,
                        !.mode = "paused"]

\* _handle_mute_packet
HandleMute(st, ch, intensity) ==
    IF ch = st.id THEN [st EXCEPT !.muted = intensity] ELSE st

\* _handle_reset_packet: song_index is 0 before the global is looked up
HandleReset(st, t) ==
    LET z == [st EXCEPT !.index = 0, !.fired = <<>>]
    IN  IF Len(st.events) = 0 \/ SatTiming(st) = <<>> THEN z
        ELSE [z EXCEPT !.start = t - TicksToTime(st.events[1][1], SatTiming(st))]

\* a variant that clears for the satellite's own id only
HandleClearOwnOnly(st, id) ==
    IF id = st.id
    THEN LET m == [st.meta EXCEPT !.max_ticks = 0]
             u == UpdateMetadata(m)
         IN  IF u.err /= "none"
             THEN [st EXCEPT !.events = <<>>, !.meta = m]
             ELSE [st EXCEPT !.events = <<>>, !.meta = u.meta, !.index = 0,
                             !.mode = "clear", !.fired = <<>>]
    ELSE st

\* a variant that clears whatever id the packet carries
HandleClearAnyId(st, id) ==
    LET m == [st.meta EXCEPT !.max_ticks = 0]
        u == UpdateMetadata(m)
    IN  IF u.err /= "none"
        THEN [st EXCEPT !.events = <<>>, !.meta = m]
        ELSE [st EXCEPT !.events = <<>>, !.meta = u.meta, !.index = 0,
                        !.mode = "clear", !.fired = <<>>]

\* a variant that leaves the cursor where it is
HandleClearKeepsCursor(st, id) ==
    IF id = st.id \/ id = 255
    THEN LET m == [st.meta EXCEPT !.max_ticks = 0]
             u == UpdateMetadata(m)
         IN  IF u.err /= "none"
             THEN [st EXCEPT !.events = <<>>, !.meta = m]
             ELSE [st EXCEPT !.events = <<>>, !.meta = u.meta,
                             !.mode = "clear", !.fired = <<>>]
    ELSE st

\* _handle_clear_packet with LocalSong.clear: the events are gone before
\* _update_metadata divides
HandleClear(st, id) ==
    IF id = st.id \/ id = 255
    THEN LET m == [st.meta EXCEPT !.max_ticks = 0]
             u == UpdateMetadata(m)
         IN  IF u.err /= "none"
             THEN [st EXCEPT !.events = <<>>, !.meta = m]
             ELSE [st EXCEPT !.events = <<>>, !.meta = u.meta, !.index = 0,
                             !.mode = "clear", !.fired = <<>>]
    ELSE st

\* _handle_event_packet
HandleEvent(st, r) ==
    IF r[2] = st.id THEN LocalAddEvent(st, r[3], r[4], r[5], r[6]) ELSE st

\* PatternPacketHandler.handle_packet and PitchSynth._process_network with
\* PitchSynth.handle_packet: an exception is caught and reported
SatReceive(st, msg, t) ==
    LET r == HandlePacket(msg)
        k == r.result[1]
    IN  IF r.raised \/ r.result = None THEN st
        ELSE CASE k = "tick" -> HandleTick(st, r.result[2], t)
               [] k = "begin" -> HandleBegin(st, t)
               [] k = "stop" -> HandleStop(st)
               [] k = "header" -> HandleHeader(st, r.result)
               [] k = "mute" -> HandleMute(st, r.result[2], r.result[3])
               [] k = "reset" -> HandleReset(st, t)
               [] k = "clear" -> HandleClear(st, r.result[2])
               [] k = "event" -> HandleEvent(st, r.result)
               [] OTHER -> st

\* the test of PatternPlayback.update and PitchSynth._handle_playback
SatDue(st, t) ==
    t >= st.start + TicksToTime(st.events[st.index + 1][1] - st.delta,
                                st.meta.tick_to_time)

\* the MIDI output of an event: NoteOff for intensity 0, NoteOn otherwise
\* unless the satellite is muted (pitch.py _play_event)
SatPlayEvent(st, e) ==
    IF e[2] /= st.id THEN st
    ELSE IF e[4] = 0 THEN [st EXCEPT !.sounding = @ \ {e[3]}]
    ELSE IF st.muted = 0 THEN [st EXCEPT !.sounding = @ \cup {e[3]}]
    ELSE st

\* a variant that goes on dispatching until the event at the cursor is not due
RECURSIVE SatUpdateDrains(_, _)
SatUpdateDrains(st, t) ==
    IF st.mode = "playing" /\ st.index < Len(st.events) /\ SatDue(st, t)
    THEN SatUpdateDrains([SatPlayEvent(st, st.events[st.index + 1]) EXCEPT
                             !.index = @ + 1,
                             !.fired = Logged(@, st.events[st.index + 1])], t)
    ELSE st

\* PatternPlayback.update and PitchSynth._process_playback: one event a pass
SatUpdate(st, t) ==
    IF st.mode = "playing" /\ st.index < Len(st.events) /\ SatDue(st, t)
    THEN [SatPlayEvent(st, st.events[st.index + 1]) EXCEPT
             !.index = @ + 1, !.fired = Logged(@, st.events[st.index + 1])]
    ELSE st

-----------------------------------------------------------------------------
(* The conductor's main loop (boss.py 309-319), the radio, the satellite's  *)
(* main loop (pattern.py 729-762, pitch.py 301-310)                         *)

MaxInbox == 2        \* packets a radio holds
MaxPairs == 2        \* pair requests
MaxNow == 8          \* the clock stops here
MaxDistNotes == 2    \* most records of a distributed song
MaxPlaying == 3      \* most entries of Play.playing

\* SongPlayer(song, audio_system, ..) with the Play object of the audio
\* system: mute holds the channels whose Play.mute entry is set, playing the
\* <<channel, note>> pairs of Play.playing in the order they were appended;
\* fired as for the satellite; sounding is not a field of the program: the
\* notes the MIDI output and the instruments were told to start and have not
\* been told to stop
PlayerNew ==
    [state |-> "paused", index |-> 0, start |-> 0, fired |-> <<>>,
     mute |-> {}, playing |-> <<>>, sounding |-> {}]

\* list.remove(x): the first occurrence goes, ValueError without one
RemoveFirst(s, x) ==
    IF x \in Range(s)
    THEN LET k == CHOOSE i \in 1..Len(s) : s[i] = x /\ \A j \in 1..(i - 1) : s[j] /= x
         IN  SubSeq(s, 1, k - 1) \o SubSeq(s, k + 1, Len(s))
    ELSE s

\* Play.event(ch, note, intensity) with Play.on and Play.off: both do nothing
\* for a muted channel
PlayEvent(p, ch, note, intensity) ==
    IF ch \in p.mute THEN p
    ELSE IF intensity = 0
    THEN [p EXCEPT !.sounding = @ \ {<<ch, note>>},
                   !.playing = RemoveFirst(@, <<ch, note>>)]
    ELSE [p EXCEPT !.sounding = @ \cup {<<ch, note>>},
                   !.playing = Append(@, <<ch, note>>)]

\* a variant that stops the notes of the channels that are not muted only
StopAllNotesUnmutedOnly(p) ==
    [p EXCEPT !.sounding = {x \in @ : x[1] \in p.mute}, !.playing = <<>>]

\* Play.stop_all_notes: a note-off for every entry of Play.playing
StopAllNotes(p) ==
    [p EXCEPT !.sounding = @ \ Range(p.playing), !.playing = <<>>]

\* no satellite is in reach of the conductor
NoSatellite == [kind |-> "none", phase |-> "off"]

\* esp.send(packet, broadcast) for each packet of pkts, seen from the
\* satellite, whose radio holds q and can hold MaxInbox packets: nothing gets
\* lost, the sender's pauses (time.sleep between the sends) are long enough
\* for the satellite to make room before the packets arrive
Deliveries(q, pkts) ==
    IF sat.kind = "none" THEN {q}
    ELSE IF Len(q) + Len(pkts) <= MaxInbox THEN {q \o pkts} ELSE {}

\* ids of the devices that ask for the song: the pitch and the pattern
\* satellite (config.INSTRUMENT_ID 2 and 3) and a device set to 255
PairIds == {2, 3, 255}

\* send_pair() of a device, at its start or from its menu
PairRequest ==
    /\ bossPc = "loop"
    /\ pairs < MaxPairs
    /\ Len(bossInbox) < MaxInbox
    /\ \E id \in PairIds :
          bossInbox' = bossInbox \o SendPacket(PacketTypes.pair, <<id>>, 0)
    /\ pairs' = pairs + 1
    /\ UNCHANGED <<now, sat, inbox, bossPhase, player, sendPos, sendId, sendResult,
                   sent, aired>>
    /\ UNCHANGED <<storeVars, codecVars, pktVars, verVars, envVars>>

\* the test of SongPlayer.update
BossDue ==
    now >= player.start + TicksToTime(songEvents[player.index + 1][1],
                                      songMeta.tick_to_time)

\* a variant that sends the tick packet for every event it dispatches
BossUpdateTicksEveryEvent ==
    /\ bossPc = "loop" /\ bossPhase = "playback" /\ sendPos = 0
    /\ IF player.state /= "playing"
       THEN /\ player' = player
            /\ aired' = <<>>
       ELSE IF player.index >= Len(songEvents)
       THEN /\ player' = [StopAllNotes(player) EXCEPT !.state = "paused", !.index = 0]
            /\ aired' = SendPacket(PacketTypes.stop, ExtraPayload, 2)
       ELSE /\ BossDue
            /\ Len(player.playing) < MaxPlaying
            /\ LET e == songEvents[player.index + 1]
               IN  \E fails \in BOOLEAN :
                      /\ player' = [PlayEvent(player, e[2], e[3], e[4]) EXCEPT
                                      !.fired = Logged(@, e),
                                      !.index = IF fails THEN @ ELSE @ + 1]
                      /\ aired' = IF ~fails
                                  THEN SendPacket(PacketTypes.tick, ToBytes(e[1], 2), 1)
                                  ELSE <<>>
    /\ inbox' \in Deliveries(inbox, aired')
    /\ bossPhase' = "input"
    /\ UNCHANGED <<now, sat, bossInbox, sendPos, sendId, sendResult, sent, pairs>>
    /\ UNCHANGED <<storeVars, codecVars, pktVars, verVars, envVars>>

\* handle_song_playback with SongPlayer.update: at the end of the song it
\* pauses, stops all notes and broadcasts stop; otherwise it stays in its while loop until the
\* event at song_index is due, hands it to the audio system and, for a
\* note-on, sends the tick packet before it advances song_index; a
\* PacketSendError of that send leaves update before song_index += 1
BossUpdate ==
    /\ bossPc = "loop" /\ bossPhase = "playback" /\ sendPos = 0
    /\ IF player.state /= "playing"
       THEN /\ player' = player
            /\ aired' = <<>>
       ELSE IF player.index >= Len(songEvents)
       THEN /\ player' = [StopAllNotes(player) EXCEPT !.state = "paused", !.index = 0]
            /\ aired' = SendPacket(PacketTypes.stop, ExtraPayload, 2)
       ELSE /\ BossDue
            /\ Len(player.playing) < MaxPlaying
            /\ LET e == songEvents[player.index + 1]
               IN  \E fails \in (IF e[4] > 0 THEN BOOLEAN ELSE {FALSE}) :
                      /\ player' = [PlayEvent(player, e[2], e[3], e[4]) EXCEPT
                                      !.fired = Logged(@, e),
                                      !.index = IF fails THEN @ ELSE @ + 1]
                      /\ aired' = IF e[4] > 0 /\ ~fails
                                  THEN SendPacket(PacketTypes.tick, ToBytes(e[1], 2), 1)
                                  ELSE <<>>
    /\ inbox' \in Deliveries(inbox, aired')
    /\ bossPhase' = "input"
    /\ UNCHANGED <<now, sat, bossInbox, sendPos, sendId, sendResult, sent, pairs>>
    /\ UNCHANGED <<storeVars, codecVars, pktVars, verVars, envVars>>

\* the channel keys pressed: that of the pitch satellite's channel
MuteKeys == {2}

\* handle_input: the reset key (SongPlayer.reset), the play/pause key
\* (handle_play_pause with SongPlayer.play and pause), a channel key
\* (handle_mute_toggle), or no key; play() on an empty song raises TypeError
\* (get_event(0) is None) before it assigns; pause() sends the stop packet
\* before it stops the notes, so a PacketSendError leaves them as they are
BossInput(keys) ==
    /\ bossPc = "loop" /\ bossPhase = "input" /\ sendPos = 0
    /\ \E key \in keys :
          CASE key = "reset" ->
                 /\ player' = [player EXCEPT !.index = 0, !.start = now, !.fired = <<>>]
                 /\ aired' = SendPacket(PacketTypes.reset, ExtraPayload, 2)
            [] key = "play_pause" ->
                 IF player.state = "playing"
                 THEN \E fails \in BOOLEAN :
                         IF fails
                         THEN /\ player' = [player EXCEPT !.state = "paused"]
                              /\ aired' = <<>>
                         ELSE /\ player' = StopAllNotes([player EXCEPT !.state = "paused"])
                              /\ aired' = SendPacket(PacketTypes.stop, ExtraPayload, 2)
                 ELSE IF player.index >= Len(songEvents)
                 THEN /\ player' = player
                      /\ aired' = <<>>
                 ELSE /\ player' = [player EXCEPT
                                      !.start = now - TicksToTime(songEvents[player.index + 1][1],
                                                                  songMeta.tick_to_time),
                                      !.state = "playing", !.fired = <<>>]
                      /\ aired' = SendPacket(PacketTypes.begin, ExtraPayload, 2)
            [] key = "mute" ->
                 /\ \E k \in MuteKeys :
                       player' = [player EXCEPT
                                    !.mute = IF k \in @ THEN @ \ {k} ELSE @ \cup {k}]
                 /\ aired' = <<>>
            [] OTHER ->
                 /\ player' = player
                 /\ aired' = <<>>
    /\ inbox' \in Deliveries(inbox, aired')
    /\ bossPhase' = "network"
    /\ UNCHANGED <<now, sat, bossInbox, sendPos, sendId, sendResult, sent, pairs>>
    /\ UNCHANGED <<storeVars, codecVars, pktVars, verVars, envVars>>

\* a variant in which the conductor obeys the transport packets it receives,
\* as a satellite does
BossNetworkObeysPackets ==
    /\ bossPc = "loop" /\ bossPhase = "network" /\ sendPos = 0
    /\ IF bossInbox = <<>>
       THEN /\ bossPhase' = "playback"
            /\ UNCHANGED <<bossInbox, player, sendPos, sendId, sendResult, sent>>
       ELSE LET r == HandlePacket(Head(bossInbox))
                k == IF r.raised \/ r.result = None THEN "none" ELSE r.result[1]
            IN  /\ bossInbox' = Tail(bossInbox)
                /\ player' = CASE k = "live" -> PlayEvent(player, r.result[2], r.result[3],
                                                        r.result[4])
                                [] k = "stop" -> [player EXCEPT !.state = "paused"]
                                [] k = "reset" -> [player EXCEPT !.index = 0]
                                [] OTHER -> player
                /\ IF k = "pair"
                   THEN /\ sendId' = r.result[2]
                        /\ sendPos' = 1
                        /\ sendResult' = "running"
                        /\ sent' = <<>>
                        /\ bossPhase' = bossPhase
                   ELSE /\ bossPhase' = "playback"
                        /\ UNCHANGED <<sendPos, sendId, sendResult, sent>>
    /\ UNCHANGED <<now, sat, inbox, pairs, aired>>
    /\ UNCHANGED <<storeVars, codecVars, pktVars, verVars, envVars>>

\* handle_network_packets up to the call of send_song: a live packet goes to
\* the audio system (Play.event), a pair packet starts send_song with the
\* bytes of the song file, any other packet changes nothing; an exception of
\* handle_packet is caught and reported
BossNetwork ==
    /\ bossPc = "loop" /\ bossPhase = "network" /\ sendPos = 0
    /\ IF bossInbox = <<>>
       THEN /\ bossPhase' = "playback"
            /\ UNCHANGED <<bossInbox, player, sendPos, sendId, sendResult, sent>>
       ELSE LET r == HandlePacket(Head(bossInbox))
                k == IF r.raised \/ r.result = None THEN "none" ELSE r.result[1]
            IN  /\ bossInbox' = Tail(bossInbox)
                /\ player' = IF k = "live"
                             THEN PlayEvent(player, r.result[2], r.result[3], r.result[4])
                             ELSE player
                /\ IF k = "pair"
                   THEN /\ sendId' = r.result[2]
                        /\ sendPos' = 1
                        /\ sendResult' = "running"
                        /\ sent' = <<>>
                        /\ bossPhase' = bossPhase
                   ELSE /\ bossPhase' = "playback"
                        /\ UNCHANGED <<sendPos, sendId, sendResult, sent>>
    /\ UNCHANGED <<now, sat, inbox, pairs, aired>>
    /\ UNCHANGED <<storeVars, codecVars, pktVars, verVars, envVars>>

\* the next esp.send of the running send_song; after the last one send_song
\* returns and the main loop goes on
SendSongPacket ==
    /\ sendPos > 0
    /\ LET s == SendSong(sendId, file)
       IN  IF sendPos <= Len(s.packets)
           THEN /\ sent' = Append(sent, s.packets[sendPos])
                /\ inbox' \in Deliveries(inbox, <<s.packets[sendPos]>>)
                /\ IF sendPos = Len(s.packets) /\ s.err = "none"
                   THEN /\ sendPos' = 0
                        /\ sendResult' = "done"
                        /\ bossPhase' = "playback"
                   ELSE /\ sendPos' = sendPos + 1
                        /\ UNCHANGED <<sendResult, bossPhase>>
           ELSE /\ sendPos' = 0
                /\ sendResult' = "error"
                /\ bossPhase' = "playback"
                /\ UNCHANGED <<sent, inbox>>
    /\ UNCHANGED <<now, sat, bossInbox, player, sendId, pairs, aired>>
    /\ UNCHANGED <<storeVars, codecVars, pktVars, verVars, envVars>>

\* esp.send raises inside send_song: SongSendError, reported by
\* handle_network_packets
SendSongFails ==
    /\ sendPos > 0
    /\ sendPos' = 0
    /\ sendResult' = "error"
    /\ bossPhase' = "playback"
    /\ UNCHANGED <<now, sat, inbox, bossInbox, player, sendId, sent, pairs, aired>>
    /\ UNCHANGED <<storeVars, codecVars, pktVars, verVars, envVars>>

\* pattern_playback.update() and self._process_playback()
SatPlayback ==
    /\ sat.phase = "playback"
    /\ sat' = [SatUpdate(sat, now) EXCEPT !.phase = "network"]
    /\ UNCHANGED <<now, inbox, bossInbox, bossPhase, player, sendPos, sendId,
                   sendResult, sent, pairs, aired>>
    /\ UNCHANGED <<storeVars, codecVars, pktVars, verVars, envVars>>

\* read_packet() and the handling of the packet read, if there is one
SatNetwork ==
    /\ sat.phase = "network"
    /\ IF inbox = <<>>
       THEN /\ sat' = [sat EXCEPT !.phase = "playback"]
            /\ inbox' = inbox
       ELSE /\ sat' = [SatReceive(sat, Head(inbox), now) EXCEPT !.phase = "playback"]
            /\ inbox' = Tail(inbox)
    /\ UNCHANGED <<now, bossInbox, bossPhase, player, sendPos, sendId, sendResult,
                   sent, pairs, aired>>
    /\ UNCHANGED <<storeVars, codecVars, pktVars, verVars, envVars>>

\* time passes
Advance ==
    /\ now + 2 <= MaxNow
    /\ now' = now + 2
    /\ UNCHANGED <<sat, inbox, bossInbox, bossPhase, player, sendPos, sendId,
                   sendResult, sent, pairs, aired>>
    /\ UNCHANGED <<storeVars, codecVars, pktVars, verVars, envVars>>

-----------------------------------------------------------------------------
(* Distribution of the song from the conductor to the satellite *)

\* records of the distributed songs: notes of the two satellites' channels,
\* of length 1 and 0, that end at the same tick
DistRecords ==
    {<<s, 1, c, 60, 100>> : s \in {0, 1}, c \in {2, 3}}

\* the song files of the conductor: records in any order
DistSongs ==
    {[h |-> [ticks_per_beat |-> 480, max_ticks |-> 2, tempo2 |-> 240,
             numerator |-> 4, denominator |-> 4, nr_instruments |-> 4],
      notes |-> ns] :
        ns \in UNION {[1..n -> DistRecords] : n \in 0..MaxDistNotes}}

\* the conductor in its main loop with the Song of one of the files
ConductorStarted(songs) ==
    /\ StoreIdle
    /\ PktIdle
    /\ VerIdle
    /\ EnvIdle
    /\ origin = "raw"
    /\ source \in songs
    /\ file = CreateByteSong(source)
    /\ songEvents = SongLoad(file).events
    /\ songMeta = SongLoad(file).meta
    /\ loadError = "none"
    /\ now = 0
    /\ inbox = <<>>
    /\ bossInbox = <<>>
    /\ bossPhase = "playback"
    /\ player = PlayerNew
    /\ sendPos = 0
    /\ sendId = 0
    /\ sendResult = "none"
    /\ sent = <<>>
    /\ pairs = 0
    /\ aired = <<>>

\* the pitch and the pattern satellite as constructed
NewSatellites == {SatNew("pitch", 2, 0), SatNew("pattern", 3, 0)}

DistInit ==
    /\ ConductorStarted(DistSongs)
    /\ bossPc = "loop"
    /\ sat \in NewSatellites

DistNext ==
    \/ PairRequest
    \/ BossUpdate
    \/ BossInput({"none"})
    \/ BossNetwork
    \/ SendSongPacket
    \/ SendSongFails
    \/ SatPlayback
    \/ SatNetwork

SpecDist == DistInit /\ [][DistNext]_vars

-----------------------------------------------------------------------------
(* Claims about the distribution *)

\* the records of the body of the song file, and those send_song(sendId) is for
BodyRecords ==
    [k \in 1..((Len(file) - HeaderLen) \div RecordLen) |->
        SubSeq(file, HeaderLen + (k - 1) * RecordLen + 1, HeaderLen + k * RecordLen)]

WantedRecords == SelectSeq(BodyRecords, LAMBDA r : r[5] = sendId \/ sendId = 255)

SentOfType(t) == SelectSeq(sent, LAMBDA p : p[1] = t)

IsPrefix(a, b) == Len(a) <= Len(b) /\ a = SubSeq(b, 1, Len(a))

\* the place of a packet type in the order of send_song, 0 for a type it never sends
TypeRank(t) ==
    CASE t = PacketTypes.clear -> 1
      [] t = PacketTypes.header -> 2
      [] t = PacketTypes.event -> 3
      [] t = PacketTypes.update -> 4
      [] t = PacketTypes.reset -> 5
      [] OTHER -> 0

\* C4: when send_song for the satellite's channel has returned and the
\* satellite has handled every packet of it, each once and in the order sent,
\* the satellite's LocalSong events are the conductor's Song events of that
\* channel, in the same order
C4_SatelliteHoldsItsChannel ==
    (sendResult = "done" /\ sendId = sat.id /\ inbox = <<>>)
        => sat.events = SelectSeq(songEvents, LAMBDA e : e[2] = sat.id)

\* a song of both channels has been distributed to the satellite
C4_Witness ==
    /\ sendResult = "done" /\ sendId = sat.id /\ inbox = <<>>
    /\ Len(sat.events) >= 2
    /\ Len(songEvents) > Len(sat.events)
    /\ sat.events = SelectSeq(songEvents, LAMBDA e : e[2] = sat.id)

\* C9: send_song sends clear, then one header with bytes 0..10 of the song,
\* then the event packets in the order of the body, then update, then reset;
\* no event packet comes before the header or after an update packet
C9_SendSongOrder ==
    /\ \A k \in 1..Len(sent) : TypeRank(sent[k][1]) > 0
    /\ \A i \in 1..Len(sent) : \A j \in 1..Len(sent) :
          i < j => TypeRank(sent[i][1]) <= TypeRank(sent[j][1])
    /\ \A k \in 1..Len(sent) :
          /\ sent[k][1] = PacketTypes.clear => sent[k] = <<PacketTypes.clear, sendId>>
          /\ sent[k][1] = PacketTypes.header => Tail(sent[k]) = SubSeq(file, 1, HeaderLen)
    /\ Len(SentOfType(PacketTypes.header)) <= 1
    /\ IsPrefix([k \in 1..Len(SentOfType(PacketTypes.event)) |->
                    Tail(SentOfType(PacketTypes.event)[k])], WantedRecords)
    /\ (\E k \in 1..Len(sent) : TypeRank(sent[k][1]) >= 2)
          => SentOfType(PacketTypes.clear) /= <<>>
    /\ (\E k \in 1..Len(sent) : TypeRank(sent[k][1]) >= 3)
          => Len(SentOfType(PacketTypes.header)) = 1
    /\ (\E k \in 1..Len(sent) : TypeRank(sent[k][1]) >= 4)
          => Len(SentOfType(PacketTypes.event)) = Len(WantedRecords)
    /\ SentOfType(PacketTypes.reset) /= <<>> => SentOfType(PacketTypes.update) /= <<>>
    /\ sendResult = "done" => SentOfType(PacketTypes.reset) /= <<>>

\* a send_song that left a record out and sent the other has returned
C9_Witness ==
    /\ sendResult = "done"
    /\ Len(SentOfType(PacketTypes.event)) = 1
    /\ Len(WantedRecords) < Len(BodyRecords)

-----------------------------------------------------------------------------
(* Playback: the conductor with its keys and its clock, and the satellite   *)
(* with its clock and the packets its radio hands over                      *)

\* the songs played: two records, the first starts at tick 0, the second at 1
PlaySongs ==
    {s \in DistSongs : Len(s.notes) = 2 /\ s.notes[1][1] = 0 /\ s.notes[2][1] = 1}

\* every packet the conductor sends: those of send_song for each id, begin,
\* stop and reset of the player, the tick packets of the note-on events
ConductorPackets ==
    UNION {Range(SendSong(id, file).packets) : id \in PairIds}
    \cup Range(SendPacket(PacketTypes.begin, ExtraPayload, 2))
    \cup Range(SendPacket(PacketTypes.stop, ExtraPayload, 2))
    \cup Range(SendPacket(PacketTypes.reset, ExtraPayload, 2))
    \cup {<<PacketTypes.tick>> \o ToBytes(e[1], 2) : e \in {x \in Range(songEvents) : x[4] > 0}}

\* either the conductor is followed and no satellite is in reach (no device
\* asks for the song, which is distributed under SpecDist), or the satellite
\* is followed and the conductor is away: of what it sends the radio hands
\* over some packets and loses the others
PlayInit ==
    /\ ConductorStarted(PlaySongs)
    /\ \/ bossPc = "loop" /\ sat = NoSatellite
       \/ bossPc = "away" /\ sat \in NewSatellites

\* a packet of the conductor has arrived since the satellite last read its
\* radio; the conductor sends at any time (keys, pair requests of other
\* devices), and any packet before this one may have been lost
RadioDelivers ==
    /\ bossPc = "away"
    /\ sat.phase = "network"
    /\ inbox = <<>>
    /\ \E p \in ConductorPackets : inbox' = <<p>>
    /\ UNCHANGED <<now, sat, bossInbox, bossPhase, player, sendPos, sendId,
                   sendResult, sent, pairs, aired>>
    /\ UNCHANGED <<storeVars, codecVars, pktVars, verVars, envVars>>

PlayNext ==
    \/ BossUpdate
    \/ BossInput({"none", "reset", "play_pause", "mute"})
    \/ BossNetwork
    \/ RadioDelivers
    \/ SatPlayback
    \/ SatNetwork
    \/ Advance

SpecPlay == PlayInit /\ [][PlayNext]_vars

\* C3: in one playback pass every stored event is dispatched at most once and
\* the ticks of the dispatched events do not decrease, on the conductor and
\* on the satellite
C3_DispatchedOnceInTickOrder ==
    /\ bossPc = "loop" => DispatchedOnceInOrder(player.fired)
    /\ bossPc = "away" => DispatchedOnceInOrder(sat.fired)

-----------------------------------------------------------------------------
(* handle_packet on one message after the other *)

MaxPayload == 12     \* longest payload of a message

\* type bytes that config.NETWORK_PACKET_TYPES does not hold: 0, ord('a'), 255
UnknownTypes == {0, 97, 255}

\* payloads of every length up to MaxPayload, with two fillings
Payloads == {[i \in 1..n |-> (k * i) % 256] : n \in 0..MaxPayload, k \in {1, 9}}

Messages == {<<>>} \cup {<<t>> \o pl : t \in KnownTypes \cup UnknownTypes, pl \in Payloads}

Pending == [raised |-> FALSE, result |-> <<"pending">>]

PktInit ==
    /\ StoreIdle
    /\ CodecIdle
    /\ NetIdle
    /\ VerIdle
    /\ EnvIdle
    /\ pktMsg \in Messages
    /\ pktOut = Pending

\* packet_handler.handle_packet(packet)
Decode ==
    /\ pktOut = Pending
    /\ pktOut' = HandlePacket(pktMsg)
    /\ UNCHANGED <<pktMsg, storeVars, codecVars, netVars, verVars, envVars>>

\* the radio hands over the next message
NextMessage ==
    /\ pktOut /= Pending
    /\ pktMsg' \in Messages
    /\ pktOut' = Pending
    /\ UNCHANGED <<storeVars, codecVars, netVars, verVars, envVars>>

PktNext == Decode \/ NextMessage

SpecPacket == PktInit /\ [][PktNext]_vars

\* C10: handle_packet returns None and does not raise for a message whose
\* first byte is not a known type byte
C10_UnknownTypeGivesNone ==
    (pktOut /= Pending /\ pktMsg /= <<>> /\ pktMsg[1] \notin KnownTypes)
        => pktOut = Returns(None)

\* a message of an unknown type with a payload has been decoded
C10_Witness ==
    /\ pktOut = Returns(None)
    /\ Len(pktMsg) >= 8
    /\ pktMsg[1] = 97

\* the payload bytes handle_packet reads for a type with a fixed layout: one
\* more than the highest index of msg it reads, less the type byte
PayloadLen ==
    [event |-> 7, live |-> 3, pair |-> 1, tick |-> 2, header |-> 11, mute |-> 2,
     clear |-> 1, scale |-> 9]

\* the message has the type byte of a fixed layout and a shorter payload
Truncated(msg) ==
    /\ msg /= <<>>
    /\ \E k \in DOMAIN PayloadLen :
          msg[1] = PacketTypes[k] /\ Len(msg) - 1 < PayloadLen[k]

\* C11: handle_packet returns None and does not raise for a message of a known
\* type whose payload is shorter than the layout of that type
C11_TruncatedGivesNone ==
    (pktOut /= Pending /\ Truncated(pktMsg)) => pktOut = Returns(None)

-----------------------------------------------------------------------------
(* network.py: send_verified_packet, 75-107 *)

\* for retries in range(10)
MaxRetries == 10

MaxReads == 2        \* most calls of esp.read in one listen window

\* what one esp.read() of the listen window gives: it raises, it returns None,
\* it returns a packet whose first byte is ord('a'), it returns another
\* packet.  A packet has at least one byte: ESP-NOW carries no empty message
ReadOutcomes == {"raises", "none", "ack", "other"}

VerInit ==
    /\ StoreIdle
    /\ CodecIdle
    /\ NetIdle
    /\ PktIdle
    /\ EnvIdle
    /\ verPc = "send"
    /\ verRetries = 0
    /\ verSends = 0
    /\ verReads = 0
    /\ verLast = "nothing"
    /\ verOut = "none"

\* self.esp.send(packet, target) of the for loop; an exception of it leaves the
\* function as PacketSendError
VerifySend ==
    /\ verPc = "send"
    /\ \E fails \in BOOLEAN :
          IF fails
          THEN /\ verPc' = "returned"
               /\ verOut' = "PacketSendError"
               /\ UNCHANGED <<verSends, verReads>>
          ELSE /\ verPc' = "listen"
               /\ verSends' = verSends + 1
               /\ verReads' = 0
               /\ verOut' = verOut
    /\ UNCHANGED <<verRetries, verLast>>
    /\ UNCHANGED <<storeVars, codecVars, netVars, pktVars, envVars>>

\* a variant that goes on listening after an ack
VerifyReadIgnoresAck ==
    /\ verPc = "listen"
    /\ verReads < MaxReads
    /\ \E r \in ReadOutcomes :
          /\ verLast' = r
          /\ verReads' = verReads + 1
          /\ UNCHANGED <<verPc, verOut>>
    /\ UNCHANGED <<verRetries, verSends>>
    /\ UNCHANGED <<storeVars, codecVars, netVars, pktVars, envVars>>

\* one pass of the while loop with time left in the window: esp.read(), and
\* return True for an ack; an exception of esp.read is passed over
VerifyRead ==
    /\ verPc = "listen"
    /\ verReads < MaxReads
    /\ \E r \in ReadOutcomes :
          /\ verLast' = r
          /\ verReads' = verReads + 1
          /\ IF r = "ack"
             THEN /\ verPc' = "returned"
                  /\ verOut' = "True"
             ELSE UNCHANGED <<verPc, verOut>>
    /\ UNCHANGED <<verRetries, verSends>>
    /\ UNCHANGED <<storeVars, codecVars, netVars, pktVars, envVars>>

\* time.monotonic() has reached send_time + 0.5: the while loop ends, the for
\* loop goes on with the next retry or ends, and then the function returns
\* False
VerifyWindowEnds ==
    /\ verPc = "listen"
    /\ verRetries' = verRetries + 1
    /\ IF verRetries + 1 = MaxRetries
       THEN /\ verPc' = "returned"
            /\ verOut' = "False"
       ELSE /\ verPc' = "send"
            /\ verOut' = verOut
    /\ UNCHANGED <<verSends, verReads, verLast>>
    /\ UNCHANGED <<storeVars, codecVars, netVars, pktVars, envVars>>

VerNext == VerifySend \/ VerifyRead \/ VerifyWindowEnds

\* every pass of the while loop takes time, so a window ends after finitely
\* many reads, and the function runs on until it returns
SpecVerify == VerInit /\ [][VerNext]_vars /\ WF_vars(VerNext)

\* what holds at every point of the call
VerifySafe ==
    /\ verSends <= MaxRetries
    /\ verLast = "ack" => verPc = "returned" /\ verOut = "True"
    /\ verOut = "True" => verLast = "ack"
    /\ verOut = "False" => verRetries = MaxRetries /\ verSends = MaxRetries /\ verLast /= "ack"
    /\ verOut = "PacketSendError" => verLast /= "ack" /\ verSends = verRetries
    /\ (verPc = "returned") = (verOut /= "none")

\* C12: send_verified_packet terminates, sends the packet at most 10 times,
\* returns True as soon as an ack is read, returns False after 10 windows
\* without an ack, and raises only when esp.send raises
C12_VerifiedSendTerminates == []VerifySafe /\ <>(verPc = "returned")

\* ten windows have ended without an ack, the last read raised
C12_Witness ==
    /\ verOut = "False"
    /\ verSends = MaxRetries
    /\ verLast = "raises"

-----------------------------------------------------------------------------
(* The satellite on its own: its main loop, its clock and its radio *)

SatInit ==
    /\ ConductorStarted(PlaySongs)
    /\ bossPc = "away"
    /\ sat \in NewSatellites

SatNext == RadioDelivers \/ SatPlayback \/ SatNetwork \/ Advance

SpecSat == SatInit /\ [][SatNext]_vars

\* this step is the satellite's handling of a packet that handle_packet
\* decodes as kind
SatHandles(kind) ==
    /\ sat.phase = "network"
    /\ inbox /= <<>>
    /\ sat'.phase = "playback"
    /\ LET r == HandlePacket(Head(inbox))
       IN  ~r.raised /\ r.result /= None /\ r.result[1] = kind

\* C13: a clear packet for the satellite's channel or for 255 puts the
\* satellite in Clear with an empty store and the cursor at 0, from any mode;
\* a clear packet for another channel changes neither mode, store nor cursor
C13_ClearPacket ==
    [][SatHandles("clear") =>
         IF Head(inbox)[2] = sat.id \/ Head(inbox)[2] = 255
         THEN sat'.mode = "clear" /\ sat'.events = <<>> /\ sat'.index = 0
         ELSE sat'.mode = sat.mode /\ sat'.events = sat.events /\ sat'.index = sat.index]_vars

\* the satellite is in Clear again after a header had made it Paused
C13_Witness ==
    /\ sat.kind /= "none"
    /\ sat.mode = "clear"
    /\ sat.events = <<>>
    /\ sat.index = 0
    /\ sat.meta.tempo = 120
    /\ sat.phase = "playback"

-----------------------------------------------------------------------------
(* Claims about the playback modes *)

\* this step is the conductor's handle_input in which the player sent pkts
BossSends(pkts) ==
    /\ bossPc = "loop"
    /\ bossPhase = "input"
    /\ bossPhase' = "network"
    /\ aired' = pkts

\* C14: a begin packet moves a Paused satellite, and play() a Paused
\* conductor, to Playing with start_time = now - event[cursor].tick *
\* tick_to_time, so that the event at the cursor is due at now (for a
\* participant whose store holds events)
C14_BeginAnchorsClock ==
    [][/\ (SatHandles("begin") /\ sat.mode = "paused" /\ sat.events /= <<>>) =>
             /\ sat'.mode = "playing"
             /\ sat.index < Len(sat.events)
             /\ sat'.start = now - TicksToTime(sat.events[sat.index + 1][1],
                                               sat.meta.tick_to_time)
             /\ SatDue(sat', now)
       /\ (BossSends(SendPacket(PacketTypes.begin, ExtraPayload, 2))
             /\ player.state = "paused") =>
             /\ player'.state = "playing"
             /\ player'.start = now - TicksToTime(songEvents[player.index + 1][1],
                                                  songMeta.tick_to_time)
      ]_vars

\* this step is the conductor's handle_input with the play/pause key pressed
\* while it plays
BossPauses ==
    /\ bossPc = "loop"
    /\ bossPhase = "input"
    /\ bossPhase' = "network"
    /\ player.state = "playing"
    /\ player'.state = "paused"

\* C15: a Playing satellite that handles a stop packet, and a Playing
\* conductor whose pause() runs, is Paused afterwards and none of its notes
\* is left sounding
C15_StopReleasesNotes ==
    [][/\ (SatHandles("stop") /\ sat.mode = "playing") =>
             sat'.mode = "paused" /\ sat'.sounding = {}
       /\ BossPauses => player'.sounding = {}
      ]_vars

\* C16: after a reset (a reset packet on a satellite, reset() on the
\* conductor), from any mode, the participant is not Playing, its cursor is 0,
\* its tick_delta is 0 and its start_time is now
C16_ResetZeroes ==
    [][/\ SatHandles("reset") =>
             /\ sat'.mode /= "playing"
             /\ sat'.index = 0
             /\ sat'.delta = 0
             /\ sat'.start = now
       /\ BossSends(SendPacket(PacketTypes.reset, ExtraPayload, 2)) =>
             /\ player'.state /= "playing"
             /\ player'.index = 0
             /\ player'.start = now
      ]_vars

\* this step is the conductor's handle_song_playback
BossUpdates ==
    /\ bossPc = "loop"
    /\ bossPhase = "playback"
    /\ bossPhase' = "input"

C18_TickSetsDelta ==
    [][SatHandles("tick") =>
         /\ sat'.delta = HandlePacket(Head(inbox)).result[2]
                         - TimeToTicks(now - sat.start, sat.meta.tick_to_time)
         /\ sat'.index = sat.index
         /\ sat'.start = sat.start
         /\ sat'.mode = sat.mode
      ]_vars

\* C20: a satellite in Clear that receives a header packet stores the
\* header's ticks_per_beat, max_ticks, tempo, numerator, denominator and
\* instrument count as its song metadata and moves to Paused
C20_HeaderToPaused ==
    [][(SatHandles("header") /\ sat.mode = "clear") =>
         LET r == HandlePacket(Head(inbox)).result
         IN  /\ sat'.meta.ticks_per_beat = r[2]
             /\ sat'.meta.max_ticks = r[3]
             /\ sat'.meta.tempo = r[4]
             /\ sat'.meta.numerator = r[5]
             /\ sat'.meta.denominator = r[6]
             /\ sat'.meta.nr_instruments = r[7]
             /\ sat'.mode = "paused"]_vars

\* the satellite, still without events, is Paused with the metadata of the
\* conductor's song, the header packet read
C20_Witness ==
    /\ sat.kind /= "none"
    /\ sat.mode = "paused"
    /\ sat.events = <<>>
    /\ sat.meta.tempo = songMeta.tempo
    /\ sat.meta.ticks_per_beat = songMeta.ticks_per_beat
    /\ sat.meta.max_ticks = songMeta.max_ticks
    /\ sat.meta.nr_instruments = songMeta.nr_instruments
    /\ sat.meta /= DefaultMeta
    /\ inbox = <<>>
    /\ sat.phase = "playback"

\* a pass of the Playing conductor that hands the event at the cursor to the
\* audio system
BossDispatches ==
    /\ BossUpdates
    /\ player.state = "playing"
    /\ player.index < Len(songEvents)

\* a pass of the satellite's scheduler that dispatches the event at the cursor
SatDispatches ==
    /\ sat.kind /= "none"
    /\ sat.phase = "playback"
    /\ sat'.phase = "network"
    /\ sat'.index /= sat.index

\* what the conductor's pass does to mode, clock anchor, cursor and packets:
\* the cursor advances and a note-on is announced with its tick packet, or the
\* send of the tick packet fails and the cursor stays; no mute state is read
BossScheduling ==
    LET e == songEvents[player.index + 1]
        tick == SendPacket(PacketTypes.tick, ToBytes(e[1], 2), 1)
    IN  /\ player'.state = "playing"
        /\ player'.start = player.start
        /\ \/ /\ player'.index = player.index + 1
              /\ aired' = IF e[4] > 0 THEN tick ELSE <<>>
           \/ /\ e[4] > 0
              /\ player'.index = player.index
              /\ aired' = <<>>

\* C19: cursor, mode and the tick and stop packets do not depend on the mute
\* states (the dispatch of an event moves them as the event and the clock say,
\* and a mute toggle moves none of them), and of the render calls only that of
\* a note-on depends on them: the note-off of a dispatched event is rendered,
\* muted or not, so its note does not sound afterwards
C19_MuteLeavesScheduling ==
    [][/\ BossDispatches =>
            /\ BossScheduling
            /\ LET e == songEvents[player.index + 1]
               IN  e[4] = 0 => <<e[2], e[3]>> \notin player'.sounding
       /\ (bossPc = "loop" /\ player'.mute /= player.mute) =>
            /\ player' = [player EXCEPT !.mute = player'.mute]
            /\ aired' = <<>>
       /\ SatDispatches =>
            /\ sat'.index = sat.index + 1
            /\ sat'.mode = sat.mode /\ sat'.start = sat.start /\ sat'.delta = sat.delta
            /\ LET e == sat.events[sat.index + 1]
               IN  (e[2] = sat.id /\ e[4] = 0) => e[3] \notin sat'.sounding
      ]_vars

-----------------------------------------------------------------------------
(* Claims about a failed load, the pairing of events and the tick packets *)

\* C30: a load that fails part-way (short header, truncated body) leaves the
\* Song's event store and metadata as they were before the load: the empty
\* store and the default metadata of the constructor
C30_FailedLoadLeavesSong ==
    (Booted /\ loadError = "IndexError") => (songEvents = <<>> /\ songMeta = DefaultMeta)

\* the number of events of the store for channel ch and note n that are
\* note-ons (intensity > 0) and that are note-offs (intensity 0)
CountOns(events, ch, n) ==
    Cardinality({i \in 1..Len(events) :
                    events[i][2] = ch /\ events[i][3] = n /\ events[i][4] > 0})

CountOffs(events, ch, n) ==
    Cardinality({i \in 1..Len(events) :
                    events[i][2] = ch /\ events[i][3] = n /\ events[i][4] = 0})

\* C25: in the store of a loaded song the note-offs match the note-ons one to
\* one: for every channel and note there are as many events of intensity 0 as
\* events of intensity > 0
C25_OnsMatchOffs ==
    bossPc = "loop" =>
        \A e \in Range(songEvents) :
            CountOffs(songEvents, e[2], e[3]) = CountOns(songEvents, e[2], e[3])

-----------------------------------------------------------------------------
(* Claims about what send_song sends and what the satellites make of it *)

\* C28: a send_song for id c that has returned has sent one event packet for
\* each body record whose channel byte is c and for no other record, for id
\* 255 one for every record; the packets stand in the order of the records
\* and carry the 7 bytes of their record
C28_EventPacketsForTarget ==
    sendResult = "done" =>
        LET ev == SentOfType(PacketTypes.event)
            chosen == {k \in 1..Len(BodyRecords) :
                          sendId = 255 \/ BodyRecords[k][5] = sendId}
        IN  /\ Len(ev) = Cardinality(chosen)
            /\ sendId = 255 => Len(ev) = Len(BodyRecords)
            /\ \A k \in 1..Len(ev) :
                  /\ Len(ev[k]) = 1 + RecordLen
                  /\ Tail(ev[k]) = SelectSeq(BodyRecords,
                                     LAMBDA r : sendId = 255 \/ r[5] = sendId)[k]

\* a song with records of both channels has been sent to 255, each record in
\* a packet of its own, in the order of the file
C28_Witness ==
    /\ sendResult = "done"
    /\ sendId = 255
    /\ Len(BodyRecords) = 2
    /\ BodyRecords[1][5] /= BodyRecords[2][5]
    /\ SentOfType(PacketTypes.event) =
          <<<<PacketTypes.event>> \o BodyRecords[1], <<PacketTypes.event>> \o BodyRecords[2]>>

\* the satellite handles the clear packet of a send_song for id c
SatHandlesClearOf(c) ==
    /\ SatHandles("clear")
    /\ Head(inbox) = SendSong(c, file).packets[1]

\* C27 as stated: whatever id the song is distributed to, a satellite that
\* receives the clear packet of send_song empties its replica and enters Clear
C27_ClearResetsAll ==
    [][\A c \in PairIds :
          SatHandlesClearOf(c) => (sat'.events = <<>> /\ sat'.mode = "clear")]_vars

\* C27 amended: the clear packet carries the target id; a satellite of that
\* channel, and every satellite when the id is 255, empties its replica and
\* enters Clear; a satellite of another channel keeps replica, cursor and mode
C27_ClearResetsTargets ==
    [][\A c \in PairIds :
          SatHandlesClearOf(c) =>
             IF c = sat.id \/ c = 255
             THEN sat'.events = <<>> /\ sat'.mode = "clear"
             ELSE sat'.events = sat.events /\ sat'.mode = sat.mode
                  /\ sat'.index = sat.index]_vars

\* a satellite that holds its song has handled both clear packets of a
\* send_song for the other satellite's id and holds its song still
C27_Witness ==
    /\ sendPos = 3
    /\ sent = SendPacket(PacketTypes.clear, <<sendId>>, 2)
    /\ sendId \notin {sat.id, 255}
    /\ inbox = <<>>
    /\ sat.events /= <<>>
    /\ sat.mode = "paused"

\* the conductor's main loop makes a call that may send: the scheduler pass
\* or the handling of the keys
BossCalls ==
    /\ bossPc = "loop"
    /\ bossPhase \in {"playback", "input"}
    /\ bossPhase' /= bossPhase

\* C26: a call of the conductor's main loop sends a tick packet only when it
\* dispatches a note-on (intensity > 0), a single one, with the tick of that
\* event in its two bytes; the dispatch of a note-off, a pass that dispatches
\* nothing and the handling of a key send none; a note-on whose dispatch
\* moves the cursor on has had its tick packet sent
C26_TickOnlyForNoteOn ==
    [][BossCalls =>
         IF BossDispatches
         THEN LET e == songEvents[player.index + 1]
              IN  /\ e[4] = 0 => aired' = <<>>
                  /\ e[4] > 0 =>
                       /\ aired' \in {<<>>, << <<PacketTypes.tick>> \o ToBytes(e[1], 2) >>}
                       /\ player'.index = player.index + 1 => aired' /= <<>>
         ELSE \A k \in 1..Len(aired') : aired'[k][1] /= PacketTypes.tick
      ]_vars

\* the conductor has just dispatched the note-on at tick 1 and has sent its
\* tick packet
C26_Witness ==
    /\ bossPc = "loop"
    /\ bossPhase = "input"
    /\ player.state = "playing"
    /\ player.index >= 1
    /\ songEvents[player.index][1] = 1
    /\ songEvents[player.index][4] > 0
    /\ aired = << <<PacketTypes.tick, 0, 1>> >>

-----------------------------------------------------------------------------
(* Claims about one pass of the scheduler *)

\* the conductor is about to run its scheduler pass while Playing, with an
\* event at the cursor that is not yet due
BossNotDue ==
    /\ bossPc = "loop" /\ bossPhase = "playback" /\ sendPos = 0
    /\ player.state = "playing"
    /\ player.index < Len(songEvents)
    /\ ~BossDue

\* C24: when the event at the cursor is not yet due the scheduler pass ends at
\* once: it can return now, with nothing dispatched or sent and the cursor
\* where it was, so that the loop goes on to the keys and the radio; it does
\* not wait inside the pass for the event to become due
C24_NotDuePassEndsAtOnce ==
    BossNotDue =>
        ENABLED (/\ BossUpdate
                 /\ player' = player
                 /\ aired' = <<>>)

\* the satellite's main loop runs its scheduler pass
SatPasses ==
    /\ sat.kind /= "none"
    /\ sat.phase = "playback"
    /\ sat'.phase = "network"

\* C23 as stated: a scheduler pass while Playing dispatches every stored event
\* from the cursor on that is due, so that at the end of the pass no event at
\* the cursor is due
C23_DueEventsDrained ==
    [][/\ (BossDispatches /\ player'.state = "playing"
              /\ player'.index < Len(songEvents))
          => now < player'.start + TicksToTime(songEvents[player'.index + 1][1],
                                               songMeta.tick_to_time)
       /\ (SatPasses /\ sat.mode = "playing" /\ sat'.index < Len(sat'.events))
          => ~SatDue(sat', now)
      ]_vars

\* C23 amended: a scheduler pass while Playing dispatches at most one event,
\* the event at the cursor: a satellite dispatches it when it is due and
\* nothing otherwise, the conductor ends its pass with it when it is due; the
\* events behind it, due or not, are left to the following passes
C23_OneEventPerPass ==
    [][/\ BossDispatches =>
            /\ BossDue
            /\ player'.index \in {player.index, player.index + 1}
            /\ player'.fired \in {player.fired,
                                  Logged(player.fired, songEvents[player.index + 1])}
       /\ SatPasses =>
            IF sat.mode = "playing" /\ sat.index < Len(sat.events) /\ SatDue(sat, now)
            THEN /\ sat'.index = sat.index + 1
                 /\ sat'.fired = Logged(sat.fired, sat.events[sat.index + 1])
            ELSE sat'.index = sat.index /\ sat'.fired = sat.fired
      ]_vars

\* a pass of the satellite has dispatched one of two events of the same tick:
\* the other one is at the cursor, due, and waits for the next pass
C23_Witness ==
    /\ sat.kind /= "none"
    /\ sat.phase = "network"
    /\ sat.mode = "playing"
    /\ sat.index >= 1
    /\ sat.index < Len(sat.events)
    /\ sat.events[sat.index][1] = sat.events[sat.index + 1][1]
    /\ Len(sat.fired) = sat.index
    /\ sat.fired[sat.index] = sat.events[sat.index]
    /\ SatDue(sat, now)

-----------------------------------------------------------------------------
(* The replica of a satellite under a radio that repeats and reorders: the  *)
(* event packets of a send_song for the satellite's channel reach it in any *)
(* order, each any number of times                                          *)

MaxHanded == 4       \* most event packets the radio hands over

\* the event packets of send_song for channel id, in the order it sends them
EventPacketsOf(id) ==
    SelectSeq(SendSong(id, file).packets, LAMBDA p : p[1] = PacketTypes.event)

ReplicaInit ==
    /\ ConductorStarted(DistSongs)
    /\ bossPc = "away"
    /\ sat \in NewSatellites

\* the radio hands one of the event packets to the satellite that reads next
RadioHandsEvent ==
    /\ bossPc = "away"
    /\ sat.phase = "network"
    /\ inbox = <<>>
    /\ Len(handed) < MaxHanded
    /\ \E p \in Range(EventPacketsOf(sat.id)) :
          /\ inbox' = <<p>>
          /\ handed' = Append(handed, p)
    /\ UNCHANGED <<now, sat, bossInbox, bossPhase, player, sendPos, sendId,
                   sendResult, sent, pairs, aired, faults>>
    /\ UNCHANGED <<storeVars, codecVars, pktVars, verVars>>

ReplicaNext == RadioHandsEvent \/ SatNetwork \/ SatPlayback

SpecReplica == ReplicaInit /\ [][ReplicaNext]_vars

\* the satellite st after it has handled the packets pkts, each once, in
\* their order
RECURSIVE Replay(_, _)
Replay(st, pkts) ==
    IF pkts = <<>> THEN st
    ELSE Replay(SatReceive(st, Head(pkts), 0), Tail(pkts))

\* the store after exactly-once delivery, in the order of sending, of the
\* packets that were handed over
InOrderStore ==
    Replay(SatNew(sat.kind, sat.id, 0),
           SelectSeq(EventPacketsOf(sat.id), LAMBDA p : p \in Range(handed))).events

\* C29: whatever the order and the repetitions in which a set of event
\* packets of its channel reached the satellite, its store holds the events
\* that exactly-once delivery in the order of sending gives, each once, and
\* is sorted by tick
C29_ReplicaIgnoresOrder ==
    (bossPc = "away" /\ inbox = <<>>) =>
        /\ Range(sat.events) = Range(InOrderStore)
        /\ NoDuplicates(sat.events)
        /\ NoDuplicates(InOrderStore)
        /\ SortedByTick(sat.events)

\* two packets were handed over in the reverse order of sending and one of
\* them a second time; the store holds their events
C29_Witness ==
    /\ bossPc = "away"
    /\ inbox = <<>>
    /\ Len(handed) >= 3
    /\ Len(EventPacketsOf(sat.id)) = 2
    /\ handed[1] = EventPacketsOf(sat.id)[2]
    /\ handed[2] = EventPacketsOf(sat.id)[1]
    /\ handed[1] /= handed[2]
    /\ handed[3] = handed[1]
    /\ Len(sat.events) >= 3

-----------------------------------------------------------------------------
(* Playback with collaborators that raise: the audio system and the display *)
(* of the conductor, the MIDI output and the display of a satellite         *)

MaxFaults == 2       \* most calls that raise

\* handle_song_playback when a call made for the event at the cursor raises.
\* audio: audio_system.event raises (Play.on and Play.off call the MIDI port
\* and the instrument unless the channel is muted), update is left before the
\* tick packet and song_index += 1.  display: update has returned the event
\* and update_playback_position or update_channel_info raises.  Either way
\* handle_song_playback catches the exception and reports it (report_error
\* guards its own display call); playback_state is not assigned
BossPlaybackRaises ==
    /\ bossPc = "loop" /\ bossPhase = "playback" /\ sendPos = 0
    /\ player.state = "playing"
    /\ player.index < Len(songEvents)
    /\ BossDue
    /\ Len(player.playing) < MaxPlaying
    /\ Len(faults) < MaxFaults
    /\ LET e == songEvents[player.index + 1]
       IN  \E c \in {"audio", "display"} :
              /\ c = "audio" => e[2] \notin player.mute
              /\ faults' = Append(faults, <<c, "playback">>)
              /\ IF c = "audio"
                 THEN /\ player' = player
                      /\ aired' = <<>>
                 ELSE /\ player' = [PlayEvent(player, e[2], e[3], e[4]) EXCEPT
                                       !.fired = Logged(@, e), !.index = @ + 1]
                      /\ aired' = IF e[4] > 0
                                  THEN SendPacket(PacketTypes.tick, ToBytes(e[1], 2), 1)
                                  ELSE <<>>
    /\ inbox' \in Deliveries(inbox, aired')
    /\ bossPhase' = "input"
    /\ UNCHANGED <<now, sat, bossInbox, sendPos, sendId, sendResult, sent, pairs, handed>>
    /\ UNCHANGED <<storeVars, codecVars, pktVars, verVars>>

\* the scheduler pass of a satellite when a call made for the event at the
\* cursor raises.  pitch.py: _play_event catches what the MIDI output raises
\* and _handle_playback goes on with song_index += 1; what display.update_roll
\* raises is caught by _handle_playback, which sets mode = paused.  pattern.py:
\* song_index += 1 comes first, and what midi.send or the display raises
\* leaves update as PatternPlaybackError; the main loop skips the rest of the
\* iteration, reports (report_error guards its display call) and calls
\* pattern_display.show_debug_message("error"), which is not guarded: when
\* that raises too, main reports "Fatal error", raises, and the loop is over
SatPlaybackRaises ==
    /\ sat.kind /= "none"
    /\ sat.phase = "playback"
    /\ sat.mode = "playing"
    /\ sat.index < Len(sat.events)
    /\ SatDue(sat, now)
    /\ Len(faults) < MaxFaults
    /\ LET e == sat.events[sat.index + 1]
           moved == [sat EXCEPT !.index = @ + 1, !.fired = Logged(@, e)]
           played == SatUpdate(sat, now)
       IN  \E c \in {"midi", "display"} :
              /\ c = "midi" => (e[2] = sat.id /\ (e[4] = 0 \/ sat.muted = 0))
              /\ IF sat.kind = "pitch"
                 THEN /\ faults' = Append(faults, <<c, "playback">>)
                      /\ sat' = IF c = "midi"
                                THEN [moved EXCEPT !.phase = "network"]
                                ELSE [played EXCEPT !.mode = "paused", !.phase = "network"]
                 ELSE \E again \in {a \in BOOLEAN : a => Len(faults) + 1 < MaxFaults} :
                        /\ faults' = faults \o
                              (IF again
                               THEN << <<c, "playback">>, <<"display", "report">> >>
                               ELSE << <<c, "playback">> >>)
                        /\ sat' = [(IF c = "midi" THEN moved ELSE played) EXCEPT
                                      !.phase = IF again THEN "ended" ELSE "playback"]
    /\ UNCHANGED <<now, inbox, bossInbox, bossPhase, player, sendPos, sendId,
                   sendResult, sent, pairs, aired, handed>>
    /\ UNCHANGED <<storeVars, codecVars, pktVars, verVars>>

\* what the conductor sends while it plays: begin, stop and reset of the
\* player and the tick packets of the note-on events
PlayerPackets ==
    Range(SendPacket(PacketTypes.begin, ExtraPayload, 2))
    \cup Range(SendPacket(PacketTypes.stop, ExtraPayload, 2))
    \cup Range(SendPacket(PacketTypes.reset, ExtraPayload, 2))
    \cup {<<PacketTypes.tick>> \o ToBytes(e[1], 2) : e \in {x \in Range(songEvents) : x[4] > 0}}

\* either the conductor is followed, or a satellite that has received the
\* song of its channel (every packet of a send_song for its id, each once)
FaultInit ==
    /\ ConductorStarted(PlaySongs)
    /\ \/ bossPc = "loop" /\ sat = NoSatellite
       \/ /\ bossPc = "away"
          /\ \E s \in NewSatellites :
                sat = Replay(s, SendSong(s.id, file).packets)

\* a packet of the playing conductor has arrived since the satellite last
\* read its radio
RadioDeliversPlayer ==
    /\ bossPc = "away"
    /\ sat.phase = "network"
    /\ inbox = <<>>
    /\ \E p \in PlayerPackets : inbox' = <<p>>
    /\ UNCHANGED <<now, sat, bossInbox, bossPhase, player, sendPos, sendId,
                   sendResult, sent, pairs, aired>>
    /\ UNCHANGED <<storeVars, codecVars, pktVars, verVars, envVars>>

FaultNext ==
    \/ BossUpdate
    \/ BossInput({"none", "play_pause"})
    \/ BossNetwork
    \/ BossPlaybackRaises
    \/ RadioDeliversPlayer
    \/ SatPlayback
    \/ SatNetwork
    \/ SatPlaybackRaises
    \/ Advance

SpecFault == FaultInit /\ [][FaultNext]_vars

\* a call made for the event at the cursor has raised in this step
RaisedInDispatch ==
    /\ Len(faults') > Len(faults)
    /\ faults'[Len(faults) + 1][2] = "playback"

\* C21: when a collaborator raises while an event is dispatched, the exception
\* stays inside the scheduler (the main loop goes on with the call that
\* follows the scheduler pass) and the playback mode is Paused afterwards
C21_RaiseInDispatchPauses ==
    [][RaisedInDispatch =>
         /\ bossPc = "loop" => (bossPhase' = "input" /\ player'.state = "paused")
         /\ bossPc = "away" => (sat'.phase = "network" /\ sat'.mode = "paused")
      ]_vars

\* C22: a failure raised in the scheduler does not end the main loop: after
\* it the loop is at one of its calls
C22_FailureKeepsLoop ==
    [][Len(faults') > Len(faults) =>
         /\ bossPc' = "loop" => bossPhase' \in {"playback", "input", "network"}
         /\ bossPc' = "away" => sat'.phase \in {"playback", "network"}
      ]_vars

-----------------------------------------------------------------------------
(* The conductor with its keys and its clock, and a radio that hands it     *)
(* packets of any device                                                    *)

\* the note of the live packets, a note no song of the model holds
LiveNote == 72

\* what a radio can hand to the conductor: pair requests, live packets of the
\* pitch satellite's keys (pitch.py 175-181), the packets another conductor
\* sends, mute and scale packets, a packet of a type nobody knows, a live
\* packet cut short and an empty message
InboundPackets ==
    {<<PacketTypes.pair, id>> : id \in PairIds}
    \cup {<<PacketTypes.live, 2, LiveNote, i>> : i \in {0, 100}}
    \cup ConductorPackets
    \cup {<<PacketTypes.mute, 2, 1>>, <<PacketTypes.update>> \o ExtraPayload,
          <<PacketTypes.scale, 0, 0>>, <<0>>, <<PacketTypes.live, 2>>, <<>>}

\* the song the conductor plays here: a note of each satellite's channel
InboundSongs == {s \in PlaySongs : s.notes[1][3] = 2 /\ s.notes[2][3] = 3}

InboundInit ==
    /\ ConductorStarted(InboundSongs)
    /\ bossPc = "loop"
    /\ sat = NoSatellite

\* a packet has arrived since the conductor last read its radio; a key of the
\* pitch satellite sends its note-on when it is pressed and its note-off when
\* it is released, so no second note-on comes while the note is held
RadioHandsBoss ==
    /\ bossPc = "loop" /\ bossPhase = "network" /\ sendPos = 0
    /\ bossInbox = <<>>
    /\ \E p \in InboundPackets :
          /\ (Len(p) >= 4 /\ p[1] = PacketTypes.live /\ p[4] > 0)
                => (Len(player.playing) < MaxPlaying /\ <<2, LiveNote>> \notin Range(player.playing))
          /\ bossInbox' = <<p>>
    /\ UNCHANGED <<now, sat, inbox, bossPhase, player, sendPos, sendId, sendResult,
                   sent, pairs, aired>>
    /\ UNCHANGED <<storeVars, codecVars, pktVars, verVars, envVars>>

InboundNext ==
    \/ BossUpdate
    \/ BossInput({"none", "play_pause"})
    \/ BossNetwork
    \/ SendSongPacket
    \/ RadioHandsBoss
    \/ Advance

SpecInbound == InboundInit /\ [][InboundNext]_vars

\* a step of handle_network_packets that has read a packet: the call of
\* handle_packet with what follows it, or a send of the send_song it started
BossHandles ==
    \/ /\ bossPc = "loop" /\ bossPhase = "network" /\ sendPos = 0
       /\ bossInbox /= <<>>
       /\ bossInbox' = Tail(bossInbox)
    \/ /\ bossPc = "loop" /\ sendPos > 0
       /\ sendPos' /= sendPos

\* C31: handling an inbound packet on the conductor, whatever its type and
\* its sender, leaves the events and the metadata of the conductor's Song,
\* the cursor and the playback mode as they are
C31_InboundLeavesSong ==
    [][BossHandles =>
         /\ songEvents' = songEvents
         /\ songMeta' = songMeta
         /\ player'.index = player.index
         /\ player'.state = player.state
      ]_vars

\* the conductor plays at its second event, a send_song for a pair request
\* has returned and the note of a live packet sounds
C31_Witness ==
    /\ bossPc = "loop"
    /\ player.state = "playing" /\ player.index >= 1
    /\ sendResult = "done"
    /\ <<2, LiveNote>> \in player.sounding

-----------------------------------------------------------------------------
(* Claims about muting, the cursor and the packets of a running playback *)

\* C32: when the conductor mutes a channel, the notes of that channel are
\* stopped: no note of a muted channel sounds, also after its note-off event
\* was dispatched while the channel was still muted
C32_MutedChannelSilent ==
    bossPc = "loop" => \A x \in player.sounding : x[1] \notin player.mute

\* C33: in every state of the conductor and of the satellite the cursor
\* (song_index) lies between 0 and the number of events of its store,
\* whatever the order of scheduler passes, packets and keys
C33_CursorInStore ==
    /\ bossPc = "loop" => (0 <= player.index /\ player.index <= Len(songEvents))
    /\ sat.kind /= "none" => (0 <= sat.index /\ sat.index <= Len(sat.events))

\* the conductor has dispatched every event of a song, and the satellite
\* every event of its store
C33_Witness ==
    \/ /\ bossPc = "loop" /\ player.state = "playing"
       /\ Len(songEvents) >= 4 /\ player.index = Len(songEvents)
    \/ /\ sat.kind /= "none" /\ sat.mode = "playing"
       /\ Len(sat.events) >= 2 /\ sat.index = Len(sat.events)

\* C34: an event packet handled while the satellite is Playing, whose events
\* go into the store before the cursor, does not make the scheduler dispatch
\* an event a second time: no pass dispatches an event that was dispatched
\* since playback was last entered or reset
C34_InsertionRepeatsNothing ==
    [][SatDispatches => sat.events[sat.index + 1] \notin Range(sat.fired)]_vars

\* C35: after the song has run to its end (the conductor is back at cursor 0
\* and has broadcast stop, the satellite has dispatched all its events and is
\* Paused), the begin packet of the next play() puts a satellite with a
\* non-empty store into Playing again
C35_BeginAfterEndPlays ==
    [][(SatHandles("begin") /\ sat.mode = "paused"
        /\ Len(sat.events) > 0 /\ sat.index = Len(sat.events)) =>
         sat'.mode = "playing"]_vars

\* C36: a begin packet handled by a satellite that is Playing leaves its
\* start_time, its cursor and its tick_delta as they are, so that the second
\* begin packet of the conductor's retransmission does not move its clock
C36_BeginWhilePlayingKeepsClock ==
    [][(SatHandles("begin") /\ sat.mode = "playing") =>
         /\ sat'.start = sat.start
         /\ sat'.index = sat.index
         /\ sat'.delta = sat.delta]_vars

\* the place of the first dispatch of event e in the log, 0 if it is not there
FiredAt(log, e) ==
    IF e \in Range(log) THEN CHOOSE i \in 1..Len(log) : log[i] = e /\ \A j \in 1..(i - 1) : log[j] /= e
    ELSE 0

\* records a and b are of the same channel and note
SameKey(a, b) == a[3] = b[3] /\ a[4] = b[4]

\* C37: events of the same channel and note that share a tick are dispatched
\* in the order of the records: the note-on of a record of length 0 before
\* its own note-off, and the note-off that ends an earlier record before the
\* note-on of a later record that starts at that tick
C37_SameTickFollowsRecords ==
    bossPc = "loop" =>
        \A k \in 1..Len(FileNotes) :
            LET r == FileNotes[k]
            IN  /\ (/\ r[1] = r[2]
                    /\ \A m \in 1..Len(FileNotes) :
                          (m /= k /\ SameKey(FileNotes[m], r))
                              => (FileNotes[m][1] /= r[1] /\ FileNotes[m][2] /= r[1])
                    /\ FiredAt(player.fired, NoteOffOf(r)) > 0)
                       => /\ FiredAt(player.fired, NoteOnOf(r)) > 0
                          /\ FiredAt(player.fired, NoteOnOf(r)) < FiredAt(player.fired, NoteOffOf(r))
                /\ \A m \in (k + 1)..Len(FileNotes) :
                      LET b == FileNotes[m]
                      IN  (/\ SameKey(r, b)
                           /\ r[1] < r[2] /\ r[2] = b[1] /\ b[1] < b[2]
                           /\ FiredAt(player.fired, NoteOnOf(b)) > 0)
                             => /\ FiredAt(player.fired, NoteOffOf(r)) > 0
                                /\ FiredAt(player.fired, NoteOffOf(r)) < FiredAt(player.fired, NoteOnOf(b))

\* C38: a satellite enters Playing from Paused only: a begin packet handled
\* in Clear (the header packet was lost, event packets have arrived) leaves
\* the mode Clear and the clock anchor as it is
C38_BeginInClearIgnored ==
    [][/\ (sat.kind /= "none" /\ sat.mode /= "playing" /\ sat'.mode = "playing")
            => sat.mode = "paused"
       /\ (SatHandles("begin") /\ sat.mode = "clear")
            => (sat'.mode = "clear" /\ sat'.start = sat.start)]_vars

\* this step is the satellite's handling of a packet that send_song(c, ..)
\* sends: its clear packet, the header, an event packet, update or reset
SatHandlesSongOf(c) ==
    /\ sat.kind /= "none"
    /\ sat.phase = "network"
    /\ inbox /= <<>>
    /\ sat'.phase = "playback"
    /\ Head(inbox) \in Range(SendSong(c, file).packets)

\* C39: while the conductor serves a pair request with send_song for channel
\* c, c not 255, a satellite of another channel keeps its mode, its cursor
\* and its event store; a Playing satellite stays Playing at the same cursor
C39_OtherSatelliteUntouched ==
    [][\A c \in PairIds \ {255} :
          (SatHandlesSongOf(c) /\ c /= sat.id) =>
             /\ sat'.mode = sat.mode
             /\ sat'.index = sat.index
             /\ sat'.events = sat.events]_vars

\* C40: when the send of the tick packet fails (PacketSendError) after the
\* note-on was handed to the audio system, the conductor's cursor has
\* advanced past that event all the same, so the next pass does not dispatch
\* the event again
C40_FailedTickStillAdvances ==
    [][(/\ BossDispatches
        /\ songEvents[player.index + 1][4] > 0
        /\ player'.fired /= player.fired
        /\ aired' = <<>>)
          => player'.index = player.index + 1]_vars

-----------------------------------------------------------------------------
(* The store driven by direct calls of add_event_last *)

StoreInit ==
    /\ StoreIdle
    /\ CodecIdle
    /\ NetIdle
    /\ PktIdle
    /\ VerIdle
    /\ EnvIdle

\* one call add_event_last(array, packet)
CallAddEventLast ==
    \E packet \in Packets :
        /\ Len(array) < MaxLen \/ packet \in Range(array)
        /\ array' = AddEventLast(array, packet)
        /\ prevArray' = array
        /\ lastPacket' = packet
        /\ inserted' = IF Len(array') > Len(array) THEN Append(inserted, packet)
                       ELSE inserted
        /\ UNCHANGED <<codecVars, netVars, pktVars, verVars, envVars>>

StoreNext == CallAddEventLast

SpecStore == StoreInit /\ [][StoreNext]_vars

-----------------------------------------------------------------------------
(* Claims about the event store *)

\* C1: after every add_event_last call of a sequence that starts from the
\* empty list, the list is sorted by tick in non-decreasing order.
C1_SortedAfterEachCall == SortedByTick(array)

\* a call placed its packet strictly inside the list, between a smaller and
\* a larger tick
C1_Witness ==
    /\ Len(array) = 3
    /\ array[2] = lastPacket
    /\ Len(prevArray) = 2
    /\ array[1][1] < array[2][1]
    /\ array[2][1] < array[3][1]

\* C2: a call whose packet equals a stored event (tick, channel, note and
\* intensity) leaves the list as it was, wherever that event sits among the
\* events of its tick, and a second insertion of the packet just inserted
\* changes nothing.
C2_DuplicateLeavesStoreUnchanged ==
    /\ (lastPacket /= <<>> /\ lastPacket \in Range(prevArray)) => array = prevArray
    /\ lastPacket /= <<>> => AddEventLast(array, lastPacket) = array

\* the repeated packet was the first of three events of its tick
C2_Witness ==
    /\ Len(prevArray) = 3
    /\ lastPacket = prevArray[1]
    /\ prevArray[1][1] = prevArray[2][1]
    /\ prevArray[2][1] = prevArray[3][1]
    /\ array = prevArray

\* C5: events that share a tick keep their insertion order: a stored event
\* that was inserted earlier stands before one of the same tick that was
\* inserted later.
C5_SameTickKeepsInsertionOrder ==
    \A i \in 1..Len(array) : \A j \in 1..Len(array) :
        (i < j /\ array[i][1] = array[j][1])
            => IndexOf(inserted, array[i]) < IndexOf(inserted, array[j])

=============================================================================
